---- MODULE Spec2Model ----
(***************************************************************************)
(* Candidate disambiguation engine of miami-records:                       *)
(*   src/src/processors/data_processor.py  (normalisation)                 *)
(*   src/src/algorithms/scoring.py         (scoring, grouping, selection)  *)
(* Python strings are sequences of one-character strings; None is the      *)
(* value None below; a dict is a record with a "keys" field naming the     *)
(* keys that are present.  Floats are exact rationals <<num, den>>.        *)
(***************************************************************************)
EXTENDS Integers, Sequences, FiniteSets, TLC

VARIABLES
    pc,            \* which call of the program the state belongs to
    phone_str,     \* argument of normalize_phone
    phone_norm,    \* value returned by normalize_phone
    name_str,      \* the name text handed to normalize_name
    addr_str,      \* the address text handed to normalize_address
    target_name,   \* target name dict handed to the scoring core
    target_addr,   \* target address dict handed to the scoring core
    candidates,    \* the candidate batch (all_candidates of the scraper)
    candidate,     \* the candidate handed to score_candidate
    score,         \* value returned by score_candidate
    groups,        \* the groups dict of select_top_two_groups_phones, in key order
    phones,        \* value returned by select_top_two_groups_phones
    runner,        \* the fields _proc and _thread of the gui's ProcessRunner
    workers,       \* the threads started by ProcessRunner.run, in start order
    log,           \* the lines handed to on_line by run and stop
    args,          \* the row arguments of the command line and the file length
    row_range      \* (start_idx, end_idx) returned by calculate_row_range

vars == <<pc, phone_str, phone_norm, name_str, addr_str, target_name,
          target_addr, candidates, candidate, score, groups, phones,
          runner, workers, log, args, row_range>>

(***************************************************************************)
(* Characters and strings                                                  *)
(***************************************************************************)
None == <<"None">>

\* ProcessRunner.__init__; 0 stands for None in _proc and _thread, the child
\* processes and the threads being numbered from 1
NoRunner == [_proc |-> 0, _thread |-> 0]

\* the row arguments when none is given, for a file without rows; an
\* argument that is absent (None) is 0: the code only tests "if args.x"
NoArgs ==
    [start_row |-> 0, end_row |-> 0, max_rows |-> 0, from_row |-> 0,
     to_row |-> 0, limit |-> 0, last |-> 0, total_rows |-> 0]

LowerLetters == <<"a","b","c","d","e","f","g","h","i","j","k","l","m",
                  "n","o","p","q","r","s","t","u","v","w","x","y","z">>
UpperLetters == <<"A","B","C","D","E","F","G","H","I","J","K","L","M",
                  "N","O","P","Q","R","S","T","U","V","W","X","Y","Z">>
DigitChars == {"0","1","2","3","4","5","6","7","8","9"}
LowerSet == {LowerLetters[i] : i \in 1..Len(LowerLetters)}
UpperSet == {UpperLetters[i] : i \in 1..Len(UpperLetters)}

\* code point order of the characters that reach sorted()
CodeOrder == <<" ", "#">> \o <<"0","1","2","3","4","5","6","7","8","9">>
             \o UpperLetters \o <<"_">> \o LowerLetters
Ord(c) == CHOOSE i \in 1..Len(CodeOrder) : CodeOrder[i] = c

\* regex classes \d, \w, \s
IsDigit(c) == c \in DigitChars
IsWord(c) == c \in DigitChars \cup LowerSet \cup UpperSet \cup {"_"}
IsSpace(c) == c \in {" ", "\t", "\n"}

\* str.upper() / str.lower(), one character
CharUpper(c) ==
    IF c \in LowerSet
    THEN UpperLetters[CHOOSE i \in 1..Len(LowerLetters) : LowerLetters[i] = c]
    ELSE c
CharLower(c) ==
    IF c \in UpperSet
    THEN LowerLetters[CHOOSE i \in 1..Len(UpperLetters) : UpperLetters[i] = c]
    ELSE c
StrUpper(s) == [i \in 1..Len(s) |-> CharUpper(s[i])]
StrLower(s) == [i \in 1..Len(s) |-> CharLower(s[i])]

\* s[a:b] of Python, 0-based, clamped to the length
Slice(s, a, b) ==
    LET lo == IF a > Len(s) THEN Len(s) ELSE a
        hi == IF b > Len(s) THEN Len(s) ELSE b
    IN  IF hi <= lo THEN <<>> ELSE SubSeq(s, lo + 1, hi)

\* truthiness of an optional string
Truthy(s) == s # None /\ s # <<>>

\* str.strip()
Strip(s) ==
    LET inked == {i \in 1..Len(s) : ~IsSpace(s[i])}
    IN  IF inked = {} THEN <<>>
        ELSE SubSeq(s, CHOOSE i \in inked : \A j \in inked : i <= j,
                       CHOOSE i \in inked : \A j \in inked : j <= i)

\* the elements of a set of integers in increasing order
SortedInts(S) ==
    [k \in 1..Cardinality(S) |->
        CHOOSE x \in S : Cardinality({y \in S : y < x}) = k - 1]

\* the last position of the run that starts at i, inside being the positions
\* of s whose character belongs to the run's class
RunEnd(s, i, inside) ==
    CHOOSE j \in i..Len(s) :
        /\ \A k \in i..j : k \in inside
        /\ (j = Len(s) \/ j + 1 \notin inside)

\* str.split(): the maximal runs of non-whitespace characters, in order
Split(s) ==
    LET inked == {i \in 1..Len(s) : ~IsSpace(s[i])}
        starts == SortedInts({i \in inked : i - 1 \notin inked})
    IN  [k \in 1..Len(starts) |-> SubSeq(s, starts[k], RunEnd(s, starts[k], inked))]

\* ' '.join(words)
RECURSIVE JoinSp(_)
JoinSp(words) ==
    IF words = <<>> THEN <<>>
    ELSE IF Len(words) = 1 THEN words[1]
    ELSE words[1] \o <<" ">> \o JoinSp(Tail(words))

\* faulty variant: only the first character is compared
StartsWithFirstChar(s, p) == p = <<>> \/ (s # <<>> /\ s[1] = p[1])

\* s.startswith(p)
StartsWith(s, p) == Len(p) <= Len(s) /\ SubSeq(s, 1, Len(p)) = p

\* sub in s for strings
Contains(s, sub) ==
    \E i \in 0..(Len(s) - Len(sub)) : SubSeq(s, i + 1, i + Len(sub)) = sub

\* s < t for strings (code point order)
StrLess(s, t) ==
    \E k \in 1..Len(t) :
        /\ k - 1 <= Len(s)
        /\ SubSeq(s, 1, k - 1) = SubSeq(t, 1, k - 1)
        /\ (k > Len(s) \/ Ord(s[k]) < Ord(t[k]))

\* sorted(set_of_strings)
SortedStrings(S) ==
    [k \in 1..Cardinality(S) |->
        CHOOSE x \in S : Cardinality({y \in S : StrLess(y, x)}) = k - 1]

SeqToSet(q) == {q[i] : i \in 1..Len(q)}

(***************************************************************************)
(* Floats as exact rationals <<num, den>>, den > 0, in lowest terms        *)
(***************************************************************************)
RECURSIVE Gcd(_, _)
Gcd(a, b) == IF b = 0 THEN a ELSE Gcd(b, a % b)
Abs(a) == IF a < 0 THEN -a ELSE a
Rat(n, d) ==
    LET g == Gcd(Abs(n), d)
    IN  IF n = 0 THEN <<0, 1>> ELSE <<n \div g, d \div g>>
RInt(n) == <<n, 1>>
RAdd(x, y) == Rat(x[1] * y[2] + y[1] * x[2], x[2] * y[2])
RMul(x, y) == Rat(x[1] * y[1], x[2] * y[2])
RDiv(x, y) == Rat(x[1] * y[2], x[2] * y[1])
RLe(x, y) == x[1] * y[2] <= y[1] * x[2]
RLt(x, y) == x[1] * y[2] < y[1] * x[2]
RMax(x, y) == IF RLe(x, y) THEN y ELSE x
RMin(x, y) == IF RLe(x, y) THEN x ELSE y

(***************************************************************************)
(* data_processor.normalize_phone                                          *)
(***************************************************************************)
PhoneLen == 10

\* re.sub(r'\D', '', phone_str)
ReSubNonDigits(s) == SelectSeq(s, IsDigit)

\* faulty variant: the length test written as "fewer than 10 digits"
normalize_phone_at_least(phone_str_) ==
    IF ~Truthy(phone_str_) THEN None
    ELSE LET digits == ReSubNonDigits(phone_str_)
         IN  IF Len(digits) < PhoneLen THEN None
             ELSE <<"(">> \o Slice(digits, 0, 3) \o <<")", " ">>
                  \o Slice(digits, 3, 6) \o <<"-">> \o Slice(digits, 6, Len(digits))

normalize_phone(phone_str_) ==
    IF ~Truthy(phone_str_) THEN None
    ELSE LET digits == ReSubNonDigits(phone_str_)
         IN  IF Len(digits) # PhoneLen THEN None
             ELSE <<"(">> \o Slice(digits, 0, 3) \o <<")", " ">>
                  \o Slice(digits, 3, 6) \o <<"-">> \o Slice(digits, 6, Len(digits))

(***************************************************************************)
(* data_processor.normalize_name and its helpers                           *)
(***************************************************************************)
NameKeys == {"first", "middle", "last", "full", "has_middle",
             "middle_initial", "search_variants"}

\* re.sub(r'[^\w\s]', ' ', s)
ReSubNamePunct(s) ==
    [i \in 1..Len(s) |-> IF IsWord(s[i]) \/ IsSpace(s[i]) THEN s[i] ELSE " "]

\* [p for p in parts if len(p) > 1]
LongTokens(parts) == SelectSeq(parts, LAMBDA p : Len(p) > 1)

\* the literal result dict of normalize_name / detect_name_format
BlankName(full) ==
    [keys |-> NameKeys, first |-> <<>>, middle |-> <<>>, last |-> <<>>,
     full |-> full, has_middle |-> FALSE, middle_initial |-> <<>>,
     search_variants |-> <<>>]

COMMON_FIRST_NAMES ==
    {<<"J","O","H","N">>, <<"J","A","M","E","S">>, <<"M","I","C","H","A","E","L">>, <<"M","A","R","Y">>, <<"P","A","T","R","I","C","I","A">>, <<"L","I","N","D","A">>,
     <<"B","A","R","B","A","R","A">>, <<"E","L","I","Z","A","B","E","T","H">>, <<"J","E","N","N","I","F","E","R">>, <<"M","A","R","I","A">>, <<"S","U","S","A","N">>,
     <<"M","A","R","G","A","R","E","T">>, <<"D","O","R","O","T","H","Y">>, <<"L","I","S","A">>, <<"N","A","N","C","Y">>, <<"K","A","R","E","N">>, <<"B","E","T","T","Y">>,
     <<"H","E","L","E","N">>, <<"S","A","N","D","R","A">>, <<"D","O","N","N","A">>, <<"R","O","B","E","R","T">>, <<"W","I","L","L","I","A","M">>, <<"D","A","V","I","D">>,
     <<"R","I","C","H","A","R","D">>, <<"C","H","A","R","L","E","S">>, <<"J","O","S","E","P","H">>, <<"T","H","O","M","A","S">>, <<"C","H","R","I","S","T","O","P","H","E","R">>,
     <<"D","A","N","I","E","L">>, <<"M","A","T","T","H","E","W">>, <<"A","N","T","H","O","N","Y">>, <<"M","A","R","K">>, <<"D","O","N","A","L","D">>, <<"S","T","E","V","E","N">>,
     <<"P","A","U","L">>, <<"A","N","D","R","E","W">>, <<"J","O","S","H","U","A">>, <<"K","E","N","N","E","T","H">>, <<"K","E","V","I","N">>, <<"B","R","I","A","N">>,
     <<"G","E","O","R","G","E">>, <<"T","I","M","O","T","H","Y">>, <<"R","O","N","A","L","D">>, <<"J","A","S","O","N">>, <<"E","D","W","A","R","D">>, <<"J","A","C","O","B">>}

detect_name_format(parts) ==
    IF Len(parts[2]) = 1
    THEN [BlankName(<<>>) EXCEPT !.last = parts[1], !.first = parts[2],
              !.middle = parts[3], !.has_middle = TRUE,
              !.middle_initial = parts[3]]
    ELSE IF parts[1] \in COMMON_FIRST_NAMES
    THEN [BlankName(<<>>) EXCEPT !.first = parts[1], !.middle = parts[2],
              !.last = parts[3], !.has_middle = TRUE,
              !.middle_initial = IF Len(parts[2]) = 1 THEN parts[2] ELSE <<>>]
    ELSE [BlankName(<<>>) EXCEPT !.last = parts[1], !.first = parts[2],
              !.middle = parts[3], !.has_middle = TRUE,
              !.middle_initial = IF Len(parts[3]) = 1 THEN parts[3] ELSE <<>>]

handle_compound_names(parts) ==
    IF Len(parts) >= 3
    THEN [BlankName(<<>>) EXCEPT
              !.last = JoinSp(SubSeq(parts, 1, Len(parts) - 1)),
              !.first = parts[Len(parts)]]
    ELSE BlankName(<<>>)

Variant(name_dict, middle_name, variant_type) ==
    [search_name |-> name_dict.first \o <<" ">> \o name_dict.last,
     middle_name |-> middle_name, variant_type |-> variant_type]

generate_name_variants(name_dict) ==
    <<Variant(name_dict, <<>>, "basic")>> \o
    (IF name_dict.has_middle /\ name_dict.middle_initial # <<>>
     THEN <<Variant(name_dict, StrLower(name_dict.middle_initial), "middle_initial")>>
     ELSE IF name_dict.has_middle /\ name_dict.middle # <<>>
             /\ Len(name_dict.middle) = 1
     THEN <<Variant(name_dict, StrLower(name_dict.middle), "middle_initial")>>
     ELSE <<>>)

\* faulty variant: a two-token name that starts with a common first name is
\* read FIRST LAST
normalize_name_first_name_aware(name) ==
    IF ~Truthy(name) THEN BlankName(<<>>)
    ELSE LET cleaned == ReSubNamePunct(Strip(StrUpper(name)))
             \* the dispatch on len(parts), from the dict with empty fields
             Parsed(parts, result) ==
                 IF Len(parts) = 1 THEN [result EXCEPT !.first = parts[1]]
                 ELSE IF Len(parts) = 2
                 THEN IF parts[1] \in COMMON_FIRST_NAMES
                      THEN [result EXCEPT !.first = parts[1], !.last = parts[2]]
                      ELSE [result EXCEPT !.last = parts[1], !.first = parts[2]]
                 ELSE IF Len(parts) = 3 THEN detect_name_format(parts)
                 ELSE IF Len(parts) > 3 THEN handle_compound_names(parts)
                 ELSE result
             \* result['search_variants'] = generate_name_variants(result)
             WithVariants(result) ==
                 [result EXCEPT !.search_variants = generate_name_variants(result)]
         IN  WithVariants(Parsed(LongTokens(Split(cleaned)), BlankName(Strip(name))))

\* faulty variant: the one-character tokens are kept
normalize_name_keep_initials(name) ==
    IF ~Truthy(name) THEN BlankName(<<>>)
    ELSE LET cleaned == ReSubNamePunct(Strip(StrUpper(name)))
             \* the dispatch on len(parts), from the dict with empty fields
             Parsed(parts, result) ==
                 IF Len(parts) = 1 THEN [result EXCEPT !.first = parts[1]]
                 ELSE IF Len(parts) = 2
                 THEN [result EXCEPT !.last = parts[1], !.first = parts[2]]
                 ELSE IF Len(parts) = 3 THEN detect_name_format(parts)
                 ELSE IF Len(parts) > 3 THEN handle_compound_names(parts)
                 ELSE result
             \* result['search_variants'] = generate_name_variants(result)
             WithVariants(result) ==
                 [result EXCEPT !.search_variants = generate_name_variants(result)]
         IN  WithVariants(Parsed(Split(cleaned), BlankName(Strip(name))))

normalize_name(name) ==
    IF ~Truthy(name) THEN BlankName(<<>>)
    ELSE LET cleaned == ReSubNamePunct(Strip(StrUpper(name)))
             \* the dispatch on len(parts), from the dict with empty fields
             Parsed(parts, result) ==
                 IF Len(parts) = 1 THEN [result EXCEPT !.first = parts[1]]
                 ELSE IF Len(parts) = 2
                 THEN [result EXCEPT !.last = parts[1], !.first = parts[2]]
                 ELSE IF Len(parts) = 3 THEN detect_name_format(parts)
                 ELSE IF Len(parts) > 3 THEN handle_compound_names(parts)
                 ELSE result
             \* result['search_variants'] = generate_name_variants(result)
             WithVariants(result) ==
                 [result EXCEPT !.search_variants = generate_name_variants(result)]
         IN  WithVariants(Parsed(LongTokens(Split(cleaned)), BlankName(Strip(name))))

(***************************************************************************)
(* data_processor.normalize_address                                        *)
(***************************************************************************)
AddrKeys == {"raw", "tokens", "street_num", "street_name"}

COMMON_STREET_WORDS ==
    {<<"N">>, <<"S">>, <<"E">>, <<"W">>, <<"S","T">>, <<"A","V","E">>, <<"B","L","V","D">>, <<"D","R">>, <<"R","D">>,
     <<"C","T">>, <<"L","N">>, <<"P","L">>, <<"W","A","Y">>}

\* re.sub(r'[^\w\s#]', ' ', s)
ReSubAddrPunct(s) ==
    [i \in 1..Len(s) |->
        IF IsWord(s[i]) \/ IsSpace(s[i]) \/ s[i] = "#" THEN s[i] ELSE " "]

\* the end of the maximal run of digits of s that starts at position i
DigitRunEnd(s, i) == RunEnd(s, i, {k \in 1..Len(s) : IsDigit(s[k])})

\* re.search(r'\b(\d+)\b', s): the first digit run with a word boundary on
\* both sides; "" when there is none
ReSearchNumber(s) ==
    LET starts == {i \in 1..Len(s) :
                      /\ IsDigit(s[i])
                      /\ (i = 1 \/ ~IsWord(s[i - 1]))
                      /\ LET j == DigitRunEnd(s, i)
                         IN  j = Len(s) \/ ~IsWord(s[j + 1])}
    IN  IF starts = {} THEN <<>>
        ELSE LET i == CHOOSE k \in starts : \A m \in starts : k <= m
             IN  SubSeq(s, i, DigitRunEnd(s, i))

\* set(re.findall(r'\d+', s)): the maximal digit runs of s
ReFindallDigits(s) ==
    {SubSeq(s, i, DigitRunEnd(s, i)) :
        i \in {k \in 1..Len(s) : IsDigit(s[k]) /\ (k = 1 \/ ~IsDigit(s[k - 1]))}}

\* faulty variant: street_name joined in the order the tokens were written,
\* the sorted() left out
normalize_address_unsorted(addr) ==
    IF ~Truthy(addr)
    THEN [keys |-> AddrKeys, raw |-> <<>>, tokens |-> {},
          street_num |-> <<>>, street_name |-> <<>>]
    ELSE LET Parsed(cleaned) ==
                 LET AddressOf(words, street_num) ==
                         LET IsStreetToken(w) ==
                                 w \notin COMMON_STREET_WORDS /\ w # street_num
                         IN  [keys |-> AddrKeys, raw |-> Strip(addr),
                              tokens |-> SeqToSet(words), street_num |-> street_num,
                              street_name |-> JoinSp(SelectSeq(words, IsStreetToken))]
                 IN  AddressOf(LongTokens(Split(cleaned)), ReSearchNumber(cleaned))
         IN  Parsed(ReSubAddrPunct(Strip(StrUpper(addr))))

normalize_address(addr) ==
    IF ~Truthy(addr)
    THEN [keys |-> AddrKeys, raw |-> <<>>, tokens |-> {},
          street_num |-> <<>>, street_name |-> <<>>]
    ELSE LET Parsed(cleaned) ==
                 LET AddressOf(tokens, street_num) ==
                         LET street_tokens ==
                                 (tokens \ COMMON_STREET_WORDS) \ {street_num}
                         IN  [keys |-> AddrKeys, raw |-> Strip(addr),
                              tokens |-> tokens, street_num |-> street_num,
                              street_name |-> JoinSp(SortedStrings(street_tokens))]
                 IN  AddressOf(SeqToSet(LongTokens(Split(cleaned))),
                               ReSearchNumber(cleaned))
         IN  Parsed(ReSubAddrPunct(Strip(StrUpper(addr))))

(***************************************************************************)
(* rapidfuzz.fuzz.token_set_ratio, as called by score_name_match           *)
(***************************************************************************)
\* longest common subsequence: the pairs (i, j) with a[i] = b[j] that end a
\* chain of k matches increasing in both coordinates, for k = 1, 2, ...
Matches(a, b) == {p \in (1..Len(a)) \X (1..Len(b)) : a[p[1]] = b[p[2]]}

RECURSIVE ChainLevels(_, _, _)
ChainLevels(all, level, k) ==
    IF level = {} THEN k
    ELSE ChainLevels(all,
             {p \in all : \E q \in level : q[1] < p[1] /\ q[2] < p[2]}, k + 1)

LcsLen(a, b) ==
    LET Chains(all) == ChainLevels(all, all, 0) IN Chains(Matches(a, b))

\* Indel.distance: insertions and deletions turning a into b
IndelDistance(a, b) == Len(a) + Len(b) - 2 * LcsLen(a, b)

\* 100 - 100 * dist / lensum
NormDistance(dist, lensum) ==
    IF lensum > 0 THEN Rat(100 * (lensum - dist), lensum) ELSE RInt(100)

token_set_ratio(s1, s2) ==
    IF s1 = <<>> \/ s2 = <<>> THEN RInt(0)
    ELSE LET Ratio(intersect, diff_ab, diff_ba, sect_len) ==
                 LET sep == IF sect_len # 0 THEN 1 ELSE 0
                     sect_ab_len == sect_len + sep + Len(diff_ab)
                     sect_ba_len == sect_len + sep + Len(diff_ba)
                     sect_ab_ratio ==
                         NormDistance(sep + Len(diff_ab), sect_len + sect_ab_len)
                     sect_ba_ratio ==
                         NormDistance(sep + Len(diff_ba), sect_len + sect_ba_len)
                     Best(result) ==
                         IF sect_len = 0 THEN result
                         ELSE RMax(result, RMax(sect_ab_ratio, sect_ba_ratio))
                 IN  IF intersect # {} /\ (diff_ab = <<>> \/ diff_ba = <<>>)
                     THEN RInt(100)
                     ELSE Best(NormDistance(IndelDistance(diff_ab, diff_ba),
                                            sect_ab_len + sect_ba_len))
             OfTokens(tokens_a, tokens_b) ==
                 IF tokens_a = {} \/ tokens_b = {} THEN RInt(0)
                 ELSE Ratio(tokens_a \cap tokens_b,
                            JoinSp(SortedStrings(tokens_a \ tokens_b)),
                            JoinSp(SortedStrings(tokens_b \ tokens_a)),
                            Len(JoinSp(SortedStrings(tokens_a \cap tokens_b))))
         IN  OfTokens(SeqToSet(Split(s1)), SeqToSet(Split(s2)))

(***************************************************************************)
(* scoring.py: component scores                                            *)
(***************************************************************************)
CandKeys == {"name", "address", "addresses", "phone", "all_phones", "raw_text"}

\* candidate.get(key): None when the key is missing
GetName(c) == IF "name" \in c.keys THEN c.name ELSE None
GetAddress(c) == IF "address" \in c.keys THEN c.address ELSE None
GetRawText(c) == IF "raw_text" \in c.keys THEN c.raw_text ELSE None
\* faulty variant: candidate.get('phone') or the first of all_phones
GetPhoneOrFirst(c) ==
    IF "phone" \in c.keys /\ Truthy(c.phone) THEN c.phone
    ELSE IF "all_phones" \in c.keys /\ c.all_phones # <<>> THEN c.all_phones[1]
    ELSE None
GetPhone(c) == IF "phone" \in c.keys THEN c.phone ELSE None

\* the first key of target_name whose subscript raises KeyError / IndexError
\* on the way through score_name_match; "" when the call returns
ScoreNameMatchError(target_name_, candidate_name) ==
    IF ~Truthy(candidate_name) THEN ""
    ELSE LET t == target_name_
             Error(cand_name) ==
                 IF "first" \notin t.keys THEN "KeyError"
                 ELSE IF t.first # <<>> /\ "last" \notin t.keys THEN "KeyError"
                 ELSE IF t.first # <<>> /\ t.last # <<>>
                         /\ t.first = cand_name.first /\ t.last = cand_name.last
                 THEN ""
                 ELSE IF "last" \notin t.keys THEN "KeyError"
                 ELSE IF t.last # <<>> /\ t.last = cand_name.last
                         /\ t.first # <<>> /\ cand_name.first # <<>>
                         /\ StartsWith(cand_name.first, Slice(t.first, 0, 3))
                 THEN ""
                 ELSE IF "full" \notin t.keys THEN "KeyError"
                 ELSE IF "search_variants" \in t.keys /\ t.search_variants = <<>>
                 THEN "IndexError"
                 ELSE ""
         IN  Error(normalize_name(candidate_name))

score_name_match(target_name_, candidate_name) ==
    IF ~Truthy(candidate_name) THEN RInt(0)
    ELSE LET t == target_name_
             has_middle == "has_middle" \in t.keys /\ t.has_middle
             middle_initial ==
                 IF "middle_initial" \in t.keys THEN t.middle_initial ELSE <<>>
             target_search ==
                 IF "search_variants" \in t.keys
                 THEN t.search_variants[1].search_name
                 ELSE t.first \o <<" ">> \o t.last
             Score(cand_name) ==
                 LET middle_bonus ==
                         IF has_middle /\ cand_name.has_middle
                            /\ middle_initial # <<>>
                            /\ cand_name.middle_initial # <<>>
                            /\ middle_initial = cand_name.middle_initial
                         THEN 30 ELSE 0
                     full_similarity == token_set_ratio(t.full, cand_name.full)
                     cand_search == cand_name.search_variants[1].search_name
                     search_similarity == token_set_ratio(target_search, cand_search)
                 IN  IF t.first # <<>> /\ t.last # <<>>
                        /\ t.first = cand_name.first /\ t.last = cand_name.last
                     THEN RInt(100)
                     ELSE IF t.last # <<>> /\ t.last = cand_name.last
                             /\ t.first # <<>> /\ cand_name.first # <<>>
                             /\ StartsWith(cand_name.first, Slice(t.first, 0, 3))
                     THEN RInt(95)
                     ELSE RAdd(RMax(full_similarity, search_similarity),
                               RInt(middle_bonus))
         IN  Score(normalize_name(candidate_name))

\* faulty variant: the word bonus is not capped at 25
calculate_partial_matches_uncapped(target_addr_, cand_addr) ==
    LET num_score ==
            IF target_addr_.street_num # <<>> /\ cand_addr.street_num # <<>>
               /\ ReFindallDigits(target_addr_.street_num)
                      \cap ReFindallDigits(cand_addr.street_num) # {}
            THEN 25 ELSE 0
        target_words == {StrLower(w) : w \in {x \in target_addr_.tokens : Len(x) > 2}}
        cand_words == {StrLower(w) : w \in {x \in cand_addr.tokens : Len(x) > 2}}
        common_words == target_words \cap cand_words
        meaningful_matches ==
            {w \in common_words : w \notin {StrLower(x) : x \in COMMON_STREET_WORDS}}
        word_score ==
            10 * Cardinality(meaningful_matches)
    IN  num_score + word_score

calculate_partial_matches(target_addr_, cand_addr) ==
    LET num_score ==
            IF target_addr_.street_num # <<>> /\ cand_addr.street_num # <<>>
               /\ ReFindallDigits(target_addr_.street_num)
                      \cap ReFindallDigits(cand_addr.street_num) # {}
            THEN 25 ELSE 0
        target_words == {StrLower(w) : w \in {x \in target_addr_.tokens : Len(x) > 2}}
        cand_words == {StrLower(w) : w \in {x \in cand_addr.tokens : Len(x) > 2}}
        common_words == target_words \cap cand_words
        meaningful_matches ==
            {w \in common_words : w \notin {StrLower(x) : x \in COMMON_STREET_WORDS}}
        word_score ==
            IF 10 * Cardinality(meaningful_matches) < 25
            THEN 10 * Cardinality(meaningful_matches) ELSE 25
    IN  num_score + word_score

\* faulty variant: the token ratio is taken against the candidate's tokens
calculate_address_similarity_recall_of_cand(target_addr_, cand_addr) ==
    LET num_score ==
            IF target_addr_.street_num # <<>>
               /\ target_addr_.street_num = cand_addr.street_num
            THEN 50 ELSE 0
        target_street == StrLower(target_addr_.street_name)
        cand_street == StrLower(cand_addr.street_name)
        name_score ==
            IF target_addr_.street_name # <<>> /\ cand_addr.street_name # <<>>
               /\ target_addr_.street_name = cand_addr.street_name
            THEN 30
            ELSE IF target_addr_.street_name # <<>> /\ cand_addr.street_name # <<>>
                    /\ (Contains(cand_street, target_street)
                        \/ Contains(target_street, cand_street))
            THEN 20 ELSE 0
        common_tokens == target_addr_.tokens \cap cand_addr.tokens
        token_score ==
            IF cand_addr.tokens # {}
            THEN Rat(30 * Cardinality(common_tokens), Cardinality(cand_addr.tokens))
            ELSE RInt(0)
    IN  RAdd(RInt(num_score + name_score),
             RAdd(token_score,
                  RInt(calculate_partial_matches(target_addr_, cand_addr))))

calculate_address_similarity(target_addr_, cand_addr) ==
    LET num_score ==
            IF target_addr_.street_num # <<>>
               /\ target_addr_.street_num = cand_addr.street_num
            THEN 50 ELSE 0
        target_street == StrLower(target_addr_.street_name)
        cand_street == StrLower(cand_addr.street_name)
        name_score ==
            IF target_addr_.street_name # <<>> /\ cand_addr.street_name # <<>>
               /\ target_addr_.street_name = cand_addr.street_name
            THEN 30
            ELSE IF target_addr_.street_name # <<>> /\ cand_addr.street_name # <<>>
                    /\ (Contains(cand_street, target_street)
                        \/ Contains(target_street, cand_street))
            THEN 20 ELSE 0
        common_tokens == target_addr_.tokens \cap cand_addr.tokens
        token_score ==
            IF target_addr_.tokens # {}
            THEN Rat(30 * Cardinality(common_tokens), Cardinality(target_addr_.tokens))
            ELSE RInt(0)
    IN  RAdd(RInt(num_score + name_score),
             RAdd(token_score,
                  RInt(calculate_partial_matches(target_addr_, cand_addr))))

\* target_addr[...] raises KeyError inside calculate_address_similarity
AddressSimilarityError(target_addr_) ==
    IF {"street_num", "street_name", "tokens"} \subseteq target_addr_.keys
    THEN "" ELSE "KeyError"

\* faulty variant: max_score = score, the score of the last address wins
RECURSIVE MaxAddressScoreLast(_, _, _)
MaxAddressScoreLast(target_addr_, candidate_addresses, max_score) ==
    IF candidate_addresses = <<>> THEN max_score
    ELSE LET cand_addr_text == Head(candidate_addresses)
         IN  MaxAddressScoreLast(target_addr_, Tail(candidate_addresses),
                 IF ~Truthy(cand_addr_text) THEN max_score
                 ELSE calculate_address_similarity(
                          target_addr_, normalize_address(cand_addr_text)))

RECURSIVE MaxAddressScore(_, _, _)
MaxAddressScore(target_addr_, candidate_addresses, max_score) ==
    IF candidate_addresses = <<>> THEN max_score
    ELSE LET cand_addr_text == Head(candidate_addresses)
         IN  MaxAddressScore(target_addr_, Tail(candidate_addresses),
                 IF ~Truthy(cand_addr_text) THEN max_score
                 ELSE RMax(max_score,
                           calculate_address_similarity(
                               target_addr_, normalize_address(cand_addr_text))))

\* faulty variant: the final min(max_score, 100) left out
score_address_match_unclamped(target_addr_, candidate_addresses) ==
    IF candidate_addresses = <<>> THEN RInt(0)
    ELSE MaxAddressScore(target_addr_, candidate_addresses, RInt(0))

score_address_match(target_addr_, candidate_addresses) ==
    IF candidate_addresses = <<>> THEN RInt(0)
    ELSE RMin(MaxAddressScore(target_addr_, candidate_addresses, RInt(0)), RInt(100))

ScoreAddressMatchError(target_addr_, candidate_addresses) ==
    IF \E i \in 1..Len(candidate_addresses) : Truthy(candidate_addresses[i])
    THEN AddressSimilarityError(target_addr_) ELSE ""

MIAMI_ZIPS ==
    {<<"3","3","1","0","1">>, <<"3","3","1","0","2">>, <<"3","3","1","0","9">>, <<"3","3","1","2","5">>, <<"3","3","1","2","6">>, <<"3","3","1","2","7">>, <<"3","3","1","2","8">>,
     <<"3","3","1","2","9">>, <<"3","3","1","3","0">>, <<"3","3","1","3","1">>, <<"3","3","1","3","2">>, <<"3","3","1","3","3">>, <<"3","3","1","3","4">>, <<"3","3","1","3","5">>,
     <<"3","3","1","3","6">>, <<"3","3","1","3","7">>, <<"3","3","1","3","8">>, <<"3","3","1","3","9">>, <<"3","3","1","4","0">>, <<"3","3","1","4","1">>, <<"3","3","1","4","2">>,
     <<"3","3","1","4","3">>, <<"3","3","1","4","4">>, <<"3","3","1","4","5">>, <<"3","3","1","4","6">>, <<"3","3","1","4","7">>, <<"3","3","1","5","0">>, <<"3","3","1","5","1">>,
     <<"3","3","1","5","2">>, <<"3","3","1","5","3">>, <<"3","3","1","5","4">>, <<"3","3","1","5","5">>, <<"3","3","1","5","6">>, <<"3","3","1","5","7">>, <<"3","3","1","5","8">>,
     <<"3","3","1","6","0">>, <<"3","3","1","6","1">>, <<"3","3","1","6","2">>, <<"3","3","1","6","3">>, <<"3","3","1","6","4">>, <<"3","3","1","6","5">>, <<"3","3","1","6","6">>,
     <<"3","3","1","6","7">>, <<"3","3","1","6","8">>, <<"3","3","1","6","9">>, <<"3","3","1","7","0">>, <<"3","3","1","7","2">>, <<"3","3","1","7","3">>, <<"3","3","1","7","4">>,
     <<"3","3","1","7","5">>, <<"3","3","1","7","6">>, <<"3","3","1","7","7">>, <<"3","3","1","7","8">>, <<"3","3","1","7","9">>, <<"3","3","1","8","0">>, <<"3","3","1","8","1">>,
     <<"3","3","1","8","2">>, <<"3","3","1","8","3">>, <<"3","3","1","8","4">>, <<"3","3","1","8","5">>, <<"3","3","1","8","6">>, <<"3","3","1","8","7">>, <<"3","3","1","8","8">>,
     <<"3","3","1","8","9">>, <<"3","3","1","9","0">>, <<"3","3","1","9","3">>, <<"3","3","1","9","4">>, <<"3","3","1","9","6">>, <<"3","3","1","9","7">>, <<"3","3","1","9","9">>}

\* faulty variant: the score is not capped at 100
score_location_context_uncapped(raw_text) ==
    IF ~Truthy(raw_text) THEN 50
    ELSE LET text_upper == StrUpper(raw_text)
             place == IF Contains(text_upper, <<"M","I","A","M","I">>) THEN 30
                      ELSE IF Contains(text_upper, <<"F","L">>)
                              \/ Contains(text_upper, <<"F","L","O","R","I","D","A">>) THEN 20
                      ELSE 0
             zip == IF \E z \in MIAMI_ZIPS : Contains(text_upper, z) THEN 25 ELSE 0
         IN  50 + place + zip

score_location_context(raw_text) ==
    IF ~Truthy(raw_text) THEN 50
    ELSE LET text_upper == StrUpper(raw_text)
             place == IF Contains(text_upper, <<"M","I","A","M","I">>) THEN 30
                      ELSE IF Contains(text_upper, <<"F","L">>)
                              \/ Contains(text_upper, <<"F","L","O","R","I","D","A">>) THEN 20
                      ELSE 0
             zip == IF \E z \in MIAMI_ZIPS : Contains(text_upper, z) THEN 25 ELSE 0
         IN  IF 50 + place + zip < 100 THEN 50 + place + zip ELSE 100

\* re.match(r'\(\d{3}\) \d{3}-\d{4}', phone): a match at the start of phone
ReMatchPhoneFormat(phone) ==
    /\ Len(phone) >= 14
    /\ phone[1] = "(" /\ phone[5] = ")" /\ phone[6] = " " /\ phone[10] = "-"
    /\ \A i \in {2, 3, 4, 7, 8, 9, 11, 12, 13, 14} : IsDigit(phone[i])

score_data_quality(c) ==
    (IF Truthy(GetName(c)) THEN 40 ELSE 0)
    + (IF Truthy(GetAddress(c)) THEN 30 ELSE 0)
    + (IF Truthy(GetPhone(c))
       THEN (IF ReMatchPhoneFormat(GetPhone(c)) THEN 30 ELSE 20)
       ELSE 0)

(***************************************************************************)
(* scoring.score_candidate                                                 *)
(***************************************************************************)
\* candidate.get('addresses', [candidate.get('address', '')])
CandidateAddresses(c) ==
    IF "addresses" \in c.keys THEN c.addresses
    ELSE IF "address" \in c.keys THEN <<c.address>> ELSE << <<>> >>

\* faulty variant: bool(target_addr.get('raw')), the strip() left out
HasTargetAddressNoStrip(target_addr_) ==
    "raw" \in target_addr_.keys /\ Truthy(target_addr_.raw)

\* bool(target_addr.get('raw') and target_addr['raw'].strip())
HasTargetAddress(target_addr_) ==
    "raw" \in target_addr_.keys /\ Truthy(target_addr_.raw)
    /\ Strip(target_addr_.raw) # <<>>

\* a float literal 0.nn
Weight(hundredths) == Rat(hundredths, 100)

score_candidate(target_name_, target_addr_, c) ==
    IF ~Truthy(GetPhone(c)) THEN RInt(0)
    ELSE LET has_target_address == HasTargetAddress(target_addr_)
             name_score == score_name_match(target_name_, GetName(c))
             addr_score == score_address_match(target_addr_, CandidateAddresses(c))
             location_score == RInt(score_location_context(GetRawText(c)))
             quality_score == RInt(score_data_quality(c))
             name_weight == IF has_target_address THEN Weight(35) ELSE Weight(50)
             addr_weight == IF has_target_address THEN Weight(45) ELSE Weight(10)
             location_weight == IF has_target_address THEN Weight(15) ELSE Weight(30)
             quality_weight == IF ~has_target_address THEN Weight(10) ELSE Weight(5)
             total_score ==
                 RAdd(RAdd(RAdd(RMul(name_score, name_weight),
                                RMul(addr_score, addr_weight)),
                           RMul(location_score, location_weight)),
                      RMul(quality_score, quality_weight))
             max_score ==
                 RAdd(RAdd(RAdd(RMul(RInt(100), name_weight),
                                RMul(RInt(100), addr_weight)),
                           RMul(RInt(100), location_weight)),
                      RMul(RInt(100), quality_weight))
         IN  IF RLt(RInt(0), max_score)
             THEN RMul(RDiv(total_score, max_score), RInt(100))
             ELSE RInt(0)

\* the exception score_candidate propagates; "" when it returns
ScoreCandidateError(target_name_, target_addr_, c) ==
    IF ~Truthy(GetPhone(c)) THEN ""
    ELSE LET First(name_error) ==
                 IF name_error # "" THEN name_error
                 ELSE ScoreAddressMatchError(target_addr_, CandidateAddresses(c))
         IN  First(ScoreNameMatchError(target_name_, GetName(c)))

Raised(exc) == <<exc>>
IsRaised(outcome) == Len(outcome) = 1

\* a call of score_candidate: the float it returns or the exception it raises
ScoreCandidateCall(target_name_, target_addr_, c) ==
    LET Outcome(error) ==
            IF error # "" THEN Raised(error)
            ELSE score_candidate(target_name_, target_addr_, c)
    IN  Outcome(ScoreCandidateError(target_name_, target_addr_, c))

(***************************************************************************)
(* Inputs                                                                  *)
(***************************************************************************)
\* a candidate dict; fields outside keys_ are absent from the dict
Cand(keys_, name, address, addresses, phone, all_phones, raw_text) ==
    [keys |-> keys_, name |-> name, address |-> address, addresses |-> addresses,
     phone |-> phone, all_phones |-> all_phones, raw_text |-> raw_text]

\* the record anywho_parser builds from a profile card
ParsedCand(name, addresses, phones_, raw_text) ==
    Cand(CandKeys, name, IF addresses # <<>> THEN addresses[1] ELSE <<>>,
         addresses, IF phones_ # <<>> THEN phones_[1] ELSE <<>>, phones_, raw_text)

\* a candidate written with the four keys of the end-to-end scenario
PlainCand(name, address, phone) ==
    Cand({"name", "address", "phone", "all_phones"}, name, address, <<>>,
         phone, <<phone>>, <<>>)

EmptyDict ==
    [keys |-> {}, first |-> <<>>, middle |-> <<>>, last |-> <<>>, full |-> <<>>,
     has_middle |-> FALSE, middle_initial |-> <<>>, search_variants |-> <<>>,
     raw |-> <<>>, tokens |-> {}, street_num |-> <<>>, street_name |-> <<>>]

NoCandidate == Cand({}, <<>>, <<>>, <<>>, <<>>, <<>>, <<>>)

MariaOcean == PlainCand(<<"M","A","R","I","A"," ","G","A","R","C","I","A">>, <<"4","5","6"," ","O","C","E","A","N"," ","D","R"," ","M","I","A","M","I"," ","F","L"," ","3","3","1","3","9">>,
                        <<"(","3","0","5",")"," ","5","5","5","-","1","2","3","4">>)
MariaElsewhere == PlainCand(<<"M","A","R","I","A"," ","G","A","R","C","I","A">>, <<"7","8","9"," ","E","L","S","E","W","H","E","R","E"," ","S","T">>,
                            <<"(","3","0","5",")"," ","5","5","5","-","5","6","7","8">>)
SpencerJ == ParsedCand(<<"S","P","E","N","C","E","R"," ","W","A","R","R","E","N"," ","J">>, << <<"4","5","6"," ","O","C","E","A","N"," ","D","R"," ","M","I","A","M","I"," ","F","L"," ","3","3","1","3","9">> >>,
                       << <<"3","0","5",".","5","5","5",".","1","2","3","4">>, <<"5","5","5","-","1","2","3","4">>, <<"(","7","8","6",")"," ","5","5","5","-","0","0","0","0">> >>,
                       <<"S","P","E","N","C","E","R"," ","W","A","R","R","E","N"," ","J"," ","4","5","6"," ","O","C","E","A","N"," ","D","R"," ","M","I","A","M","I"," ","F","L"," ","3","3","1","3","9">>)
SpencerL == ParsedCand(<<"S","P","E","N","C","E","R"," ","W","A","R","R","E","N"," ","L">>, << <<"1","2"," ","P","I","N","E"," ","A","V","E"," ","T","A","M","P","A"," ","F","L">> >>,
                       << <<"(","3","0","5",")"," ","5","5","5","-","9","9","9","9">> >>, <<"S","P","E","N","C","E","R"," ","W","A","R","R","E","N"," ","L"," ","T","A","M","P","A"," ","F","L">>)
WarrenJ == ParsedCand(<<"W","A","R","R","E","N"," ","J"," ","S","P","E","N","C","E","R">>, <<>>,
                      << <<"(","7","8","6",")"," ","5","5","5","-","0","0","0","0">>, <<"(","3","0","5",")"," ","5","5","5","-","1","2","3","4">> >>, <<>>)
MariaNoPhone == Cand(CandKeys, <<"M","A","R","I","A"," ","G","A","R","C","I","A">>, <<"4","5","6"," ","O","C","E","A","N"," ","D","R"," ","M","I","A","M","I"," ","F","L">>,
                     << <<"4","5","6"," ","O","C","E","A","N"," ","D","R"," ","M","I","A","M","I"," ","F","L">> >>, <<>>,
                     << <<"(","7","8","6",")"," ","5","5","5","-","7","7","7","7">> >>, <<"M","A","R","I","A"," ","G","A","R","C","I","A"," ","M","I","A","M","I">>)
Nameless == Cand({"name", "phone"}, <<>>, <<>>, <<>>, <<"5","5","5","-","1","2","3","4">>, <<>>, <<>>)
JohnNone == Cand({"name", "phone", "address"}, <<"J","O","H","N"," ","S","M","I","T","H">>, None, <<>>,
                 None, <<>>, <<>>)

\* the name written FIRST LAST in one record and LAST FIRST in another
GarciaMaria == PlainCand(<<"G","A","R","C","I","A"," ","M","A","R","I","A">>, <<"4","5","6"," ","O","C","E","A","N"," ","D","R"," ","M","I","A","M","I"," ","F","L"," ","3","3","1","3","9">>,
                         <<"(","3","0","5",")"," ","5","5","5","-","4","3","2","1">>)
\* records without a usable name: the name key absent, or a blank name
NamelessMiami == Cand({"phone", "all_phones", "raw_text"}, <<>>, <<>>, <<>>,
                      <<"5","5","5","-","1","2","3","4">>, << <<"(","7","8","6",")"," ","5","5","5","-","7","7","7","7">> >>, <<"M","I","A","M","I"," ","F","L">>)
BlankNamed == Cand({"name", "phone"}, <<" ">>, <<>>, <<>>, <<"(","3","0","5",")"," ","5","5","5","-","1","2","3","4">>,
                   <<>>, <<>>)

CandidatePool == {MariaOcean, MariaElsewhere, SpencerJ, SpencerL, WarrenJ,
                  MariaNoPhone, Nameless, JohnNone,
                  GarciaMaria, NamelessMiami, BlankNamed}

\* a target name dict written by hand, carrying a middle initial
TargetWarrenJ ==
    [keys |-> NameKeys, first |-> <<"W","A","R","R","E","N">>, middle |-> <<"J">>, last |-> <<"S","P","E","N","C","E","R">>,
     full |-> <<"S","P","E","N","C","E","R"," ","W","A","R","R","E","N"," ","J">>, has_middle |-> TRUE, middle_initial |-> <<"J">>,
     search_variants |-> <<[search_name |-> <<"W","A","R","R","E","N"," ","S","P","E","N","C","E","R">>, middle_name |-> <<>>,
                            variant_type |-> "basic"]>>]

TargetNameStrings == {<<"G","A","R","C","I","A"," ","M","A","R","I","A">>, <<"S","P","E","N","C","E","R"," ","W","A","R","R","E","N"," ","J">>}
TargetAddrStrings == {<<"4","5","6"," ","O","C","E","A","N"," ","D","R"," ","M","I","A","M","I"," ","F","L">>, <<>>}

\* the targets enrich_name builds, a hand-written one, and the empty dicts
Targets ==
    {<<n, normalize_address(a)>> :
        n \in {normalize_name(s) : s \in TargetNameStrings} \cup {TargetWarrenJ},
        a \in TargetAddrStrings}
    \cup {<<EmptyDict, EmptyDict>>}

(***************************************************************************)
(* The values of normalize_name and score_candidate on the inputs above,   *)
(* evaluated once; on any other input the functions are evaluated in place *)
(***************************************************************************)
CandidateNames == {GetName(c) : c \in CandidatePool} \cup {<<>>}
NameTable == [s \in CandidateNames |-> normalize_name(s)]
NormalizedName(s) ==
    IF s \in CandidateNames THEN NameTable[s] ELSE normalize_name(s)

ScoreTable ==
    [t \in Targets, c \in CandidatePool |-> ScoreCandidateCall(t[1], t[2], c)]
ScoreOf(target_name_, target_addr_, c) ==
    IF <<target_name_, target_addr_>> \in Targets /\ c \in CandidatePool
    THEN ScoreTable[<<target_name_, target_addr_>>, c]
    ELSE ScoreCandidateCall(target_name_, target_addr_, c)

(***************************************************************************)
(* scoring._build_person_key, _collect_group_phones,                       *)
(* select_top_two_groups_phones                                            *)
(***************************************************************************)
\* faulty variant: a record without a name gets the empty key
_build_person_key_no_fallback(c) ==
    LET name_text == IF Truthy(GetName(c)) THEN GetName(c) ELSE <<>>
        KeyOf(norm) ==
            LET last == Strip(StrUpper(norm.last))
                \* a trailing single-letter token of first is dropped
                Stem(first) ==
                    LET Kept(first_parts) ==
                            IF Len(first_parts) > 1
                               /\ Len(first_parts[Len(first_parts)]) = 1
                            THEN JoinSp(SubSeq(first_parts, 1, Len(first_parts) - 1))
                            ELSE first
                    IN  Kept(Split(first))
                Keyed(base_key) ==
                    IF ~norm.has_middle THEN base_key
                    ELSE IF norm.middle_initial # <<>> /\ Len(norm.middle_initial) = 1
                    THEN base_key \o <<" ">> \o norm.middle_initial
                    ELSE base_key
            IN  IF norm.first # <<>> \/ norm.last # <<>>
                THEN Keyed(Strip(Stem(Strip(StrUpper(norm.first))) \o <<" ">> \o last))
                ELSE <<>>
    IN  KeyOf(NormalizedName(name_text))

_build_person_key(c) ==
    LET name_text == IF Truthy(GetName(c)) THEN GetName(c) ELSE <<>>
        KeyOf(norm) ==
            LET last == Strip(StrUpper(norm.last))
                \* a trailing single-letter token of first is dropped
                Stem(first) ==
                    LET Kept(first_parts) ==
                            IF Len(first_parts) > 1
                               /\ Len(first_parts[Len(first_parts)]) = 1
                            THEN JoinSp(SubSeq(first_parts, 1, Len(first_parts) - 1))
                            ELSE first
                    IN  Kept(Split(first))
                Keyed(base_key) ==
                    IF ~norm.has_middle THEN base_key
                    ELSE IF norm.middle_initial # <<>> /\ Len(norm.middle_initial) = 1
                    THEN base_key \o <<" ">> \o norm.middle_initial
                    ELSE base_key
            IN  IF norm.first # <<>> \/ norm.last # <<>>
                THEN Keyed(Strip(Stem(Strip(StrUpper(norm.first))) \o <<" ">> \o last))
                ELSE IF Truthy(GetPhone(c)) THEN GetPhone(c) ELSE <<>>
    IN  KeyOf(NormalizedName(name_text))

\* faulty variant: the phone field is read first, all_phones only without it
CandidateNumbersPhoneFirst(c) ==
    IF Truthy(GetPhone(c)) THEN <<GetPhone(c)>>
    ELSE IF "all_phones" \in c.keys THEN c.all_phones ELSE <<>>

\* cand.get('all_phones') or ([cand.get('phone')] if cand.get('phone') else [])
CandidateNumbers(c) ==
    IF "all_phones" \in c.keys /\ c.all_phones # <<>> THEN c.all_phones
    ELSE IF Truthy(GetPhone(c)) THEN <<GetPhone(c)>> ELSE <<>>

\* the two nested loops of _collect_group_phones over the numbers of the
\* group's members, flattened in iteration order
RECURSIVE GroupNumbers(_)
GroupNumbers(cands) ==
    IF cands = <<>> THEN <<>>
    ELSE CandidateNumbers(Head(cands)) \o GroupNumbers(Tail(cands))

\* faulty variant: the number is kept as written instead of normalized
RECURSIVE CollectLoopRaw(_, _, _, _)
CollectLoopRaw(numbers, max_phones, phones_, seen) ==
    IF numbers = <<>> THEN phones_
    ELSE LET norm == normalize_phone(Head(numbers))
         IN  IF norm # None /\ norm \notin seen
             THEN IF Len(phones_) + 1 >= max_phones
                  THEN Append(phones_, Head(numbers))
                  ELSE CollectLoopRaw(Tail(numbers), max_phones,
                                      Append(phones_, Head(numbers)),
                                      seen \cup {norm})
             ELSE CollectLoopRaw(Tail(numbers), max_phones, phones_, seen)

RECURSIVE CollectLoop(_, _, _, _)
CollectLoop(numbers, max_phones, phones_, seen) ==
    IF numbers = <<>> THEN phones_
    ELSE LET norm == normalize_phone(Head(numbers))
         IN  IF norm # None /\ norm \notin seen
             THEN IF Len(phones_) + 1 >= max_phones THEN Append(phones_, norm)
                  ELSE CollectLoop(Tail(numbers), max_phones,
                                   Append(phones_, norm), seen \cup {norm})
             ELSE CollectLoop(Tail(numbers), max_phones, phones_, seen)

\* faulty variant: the numbers in exclude are not skipped
_collect_group_phones_no_exclude(cands, max_phones, exclude) ==
    CollectLoop(GroupNumbers(cands), max_phones, <<>>, {})

_collect_group_phones(cands, max_phones, exclude) ==
    CollectLoop(GroupNumbers(cands), max_phones, <<>>, exclude)

\* faulty variant: every candidate opens a group of its own
RECURSIVE GroupLoopNoMerge(_, _, _, _)
GroupLoopNoMerge(cands, target_name_, target_addr_, groups_) ==
    IF cands = <<>> THEN groups_
    ELSE GroupLoopNoMerge(Tail(cands), target_name_, target_addr_,
             Append(groups_,
                    [key |-> _build_person_key(Head(cands)),
                     best_score |-> ScoreOf(target_name_, target_addr_, Head(cands)),
                     members |-> <<Head(cands)>>]))

\* faulty variant: a group keeps the score of its first member
RECURSIVE GroupLoopFirstScore(_, _, _, _)
GroupLoopFirstScore(cands, target_name_, target_addr_, groups_) ==
    IF cands = <<>> THEN groups_
    ELSE LET cand == Head(cands)
             Updated(sc, key) ==
                 LET at == {i \in 1..Len(groups_) : groups_[i].key = key}
                 IN  IF at = {}
                     THEN Append(groups_, [key |-> key, best_score |-> sc,
                                           members |-> <<cand>>])
                     ELSE LET i == CHOOSE k \in at : TRUE
                          IN  [groups_ EXCEPT
                                  ![i].members = Append(groups_[i].members, cand)]
         IN  GroupLoopFirstScore(Tail(cands), target_name_, target_addr_,
                                 Updated(ScoreOf(target_name_, target_addr_, cand),
                                         _build_person_key(cand)))

\* the grouping loop: groups in order of first appearance of their key
RECURSIVE GroupLoop(_, _, _, _)
GroupLoop(cands, target_name_, target_addr_, groups_) ==
    IF cands = <<>> THEN groups_
    ELSE LET cand == Head(cands)
             \* groups after the loop body has run for cand
             Updated(sc, key) ==
                 LET at == {i \in 1..Len(groups_) : groups_[i].key = key}
                 IN  IF at = {}
                     THEN Append(groups_, [key |-> key, best_score |-> sc,
                                           members |-> <<cand>>])
                     ELSE LET i == CHOOSE k \in at : TRUE
                          IN  [groups_ EXCEPT
                                  ![i].best_score = RMax(sc, groups_[i].best_score),
                                  ![i].members = Append(groups_[i].members, cand)]
         IN  GroupLoop(Tail(cands), target_name_, target_addr_,
                       Updated(ScoreOf(target_name_, target_addr_, cand),
                               _build_person_key(cand)))

MiddleBoost == 15

sort_with_middle_priority(group, target_name_) ==
    LET target_middle ==
            IF "middle_initial" \in target_name_.keys
            THEN target_name_.middle_initial ELSE <<>>
        has_middle_match ==
            /\ target_middle # <<>>
            /\ \E i \in 1..Len(group.members) :
                  LET cand_norm == NormalizedName(GetName(group.members[i]))
                  IN  cand_norm.has_middle /\ cand_norm.middle_initial = target_middle
    IN  RAdd(group.best_score, RInt(IF has_middle_match THEN MiddleBoost ELSE 0))

\* faulty variant: a group is placed before the groups of equal rank
RECURSIVE InsertByRankBeforeEqual(_, _, _)
InsertByRankBeforeEqual(sorted_, group, target_name_) ==
    IF sorted_ = <<>> THEN <<group>>
    ELSE IF RLe(sort_with_middle_priority(Head(sorted_), target_name_),
                sort_with_middle_priority(group, target_name_))
    THEN <<group>> \o sorted_
    ELSE <<Head(sorted_)>> \o InsertByRankBeforeEqual(Tail(sorted_), group, target_name_)

\* sorted(groups.values(), key=sort_with_middle_priority, reverse=True):
\* descending, groups of equal rank kept in their order
RECURSIVE InsertByRank(_, _, _)
InsertByRank(sorted_, group, target_name_) ==
    IF sorted_ = <<>> THEN <<group>>
    ELSE IF RLt(sort_with_middle_priority(Head(sorted_), target_name_),
                sort_with_middle_priority(group, target_name_))
    THEN <<group>> \o sorted_
    ELSE <<Head(sorted_)>> \o InsertByRank(Tail(sorted_), group, target_name_)

RECURSIVE SortGroups(_, _, _)
SortGroups(groups_, target_name_, sorted_) ==
    IF groups_ = <<>> THEN sorted_
    ELSE SortGroups(Tail(groups_), target_name_,
                    InsertByRank(sorted_, Head(groups_), target_name_))

NoPhones == << <<>>, <<>>, <<>>, <<>> >>

\* the first exception raised while the grouping loop scores the candidates
RECURSIVE SelectError(_, _, _)
SelectError(cands, target_name_, target_addr_) ==
    IF cands = <<>> THEN ""
    ELSE LET Propagated(outcome) ==
                 IF IsRaised(outcome) THEN outcome[1]
                 ELSE SelectError(Tail(cands), target_name_, target_addr_)
         IN  Propagated(ScoreOf(target_name_, target_addr_, Head(cands)))

\* faulty variant: when the second group yields nothing, the next group that
\* yields a phone is read instead
PhonesOfSortedFallback(sorted_groups) ==
    IF sorted_groups = <<>> THEN NoPhones
    ELSE LET first_phones == _collect_group_phones(sorted_groups[1].members, 2, {})
             phone1 == IF Len(first_phones) > 0 THEN first_phones[1] ELSE <<>>
             phone2 == IF Len(first_phones) > 1 THEN first_phones[2] ELSE <<>>
             exclude == {p \in {phone1, phone2} : p # <<>>}
             Yield(i) == _collect_group_phones(sorted_groups[i].members, 2, exclude)
             yielding == {i \in 2..Len(sorted_groups) : Yield(i) # <<>>}
             second_phones ==
                 IF yielding = {} THEN <<>>
                 ELSE Yield(CHOOSE i \in yielding : \A j \in yielding : i <= j)
             phone3 == IF Len(second_phones) > 0 THEN second_phones[1] ELSE <<>>
             phone4 == IF Len(second_phones) > 1 THEN second_phones[2] ELSE <<>>
         IN  <<phone1, phone2, phone3, phone4>>

\* lines 332-356: rank the groups and read the phones of the best two
PhonesOfSorted(sorted_groups) ==
    LET FromFirst(first_phones) ==
            LET phone1 == IF Len(first_phones) > 0 THEN first_phones[1] ELSE <<>>
                phone2 == IF Len(first_phones) > 1 THEN first_phones[2] ELSE <<>>
                exclude == {p \in {phone1, phone2} : p # <<>>}
                FromSecond(second_phones) ==
                    LET phone3 == IF second_phones # <<>>
                                  THEN second_phones[1] ELSE <<>>
                        \* exclude.update(second_phones[:1]);
                        \* [p for p in second_phones[1:] if p not in exclude]
                        NotExcluded(p) == p \notin exclude \cup {phone3}
                        remaining == SelectSeq(Tail(second_phones), NotExcluded)
                        phone4 == IF second_phones # <<>> /\ remaining # <<>>
                                  THEN remaining[1] ELSE <<>>
                    IN  <<phone1, phone2, phone3, phone4>>
            IN  FromSecond(
                    IF Len(sorted_groups) > 1
                    THEN _collect_group_phones(sorted_groups[2].members, 2, exclude)
                    ELSE <<>>)
    IN  IF sorted_groups = <<>> THEN NoPhones
        ELSE FromFirst(_collect_group_phones(sorted_groups[1].members, 2, {}))

\* lines 302-356: the call on a batch, with the exception it may propagate
SelectFromBatch(cands, target_name_, target_addr_) ==
    LET Outcome(error) ==
            IF error # "" THEN Raised(error)
            ELSE PhonesOfSorted(
                     SortGroups(GroupLoop(cands, target_name_, target_addr_, <<>>),
                                target_name_, <<>>))
    IN  Outcome(SelectError(cands, target_name_, target_addr_))

\* faulty variant: target_name['middle_initial'] read before the batch is looked at
select_reading_target_first(cands, target_name_, target_addr_) ==
    IF "middle_initial" \notin target_name_.keys THEN Raised("KeyError")
    ELSE IF cands = <<>> THEN NoPhones
    ELSE SelectFromBatch(cands, target_name_, target_addr_)

select_top_two_groups_phones(cands, target_name_, target_addr_) ==
    IF cands = <<>> THEN NoPhones
    ELSE SelectFromBatch(cands, target_name_, target_addr_)

MaxCandidates == 3

(***************************************************************************)
(* Specification of the selection: the caller gathers a batch of           *)
(* candidates and calls select_top_two_groups_phones once.                 *)
(***************************************************************************)
Idle ==
    /\ phone_str = None /\ phone_norm = None
    /\ name_str = None /\ addr_str = None
    /\ runner = NoRunner /\ workers = <<>> /\ log = <<>>
    /\ args = NoArgs /\ row_range = <<0, 0>>
    /\ candidate = NoCandidate /\ score = RInt(0)

Init ==
    /\ pc = "collect"
    /\ \E t \in Targets : target_name = t[1] /\ target_addr = t[2]
    /\ candidates = <<>>
    /\ groups = <<>>
    /\ phones = NoPhones
    /\ Idle

\* all_candidates.extend(candidates), one candidate at a time
AddCandidate ==
    /\ pc = "collect"
    /\ Len(candidates) < MaxCandidates
    /\ \E c \in CandidatePool : candidates' = Append(candidates, c)
    /\ UNCHANGED <<runner, workers, log, args, row_range,
                   pc, name_str, addr_str,
                   phone_str, phone_norm, target_name, target_addr,
                   candidate, score, groups, phones>>

\* phone1, phone2, phone3, phone4 = select_top_two_groups_phones(...)
Select ==
    /\ pc = "collect"
    /\ pc' = "selected"
    /\ phones' = select_top_two_groups_phones(candidates, target_name, target_addr)
    /\ groups' = IF candidates = <<>>
                    \/ SelectError(candidates, target_name, target_addr) # ""
                 THEN <<>>
                 ELSE GroupLoop(candidates, target_name, target_addr, <<>>)
    /\ UNCHANGED <<runner, workers, log, args, row_range,
                   name_str, addr_str,
                   phone_str, phone_norm, target_name, target_addr,
                   candidates, candidate, score>>

Next == AddCandidate \/ Select

Spec == Init /\ [][Next]_vars

(***************************************************************************)
(* Specification of score_candidate: one call on a target and a candidate  *)
(* whose fields are chosen independently.                                  *)
(***************************************************************************)
ScoreNameStrings ==
    {<<"G","A","R","C","I","A"," ","M","A","R","I","A">>, <<"S","P","E","N","C","E","R"," ","W","A","R","R","E","N"," ","J">>, <<"J","O","H","N"," ","A","D","A","M"," ","S","M","I","T","H">>, <<>>}
ScoreAddrStrings == {<<"4","5","6"," ","O","C","E","A","N"," ","D","R"," ","M","I","A","M","I"," ","F","L">>, <<" ">>, <<>>}

\* a target address dict written by hand whose raw text is only whitespace
BlankRawAddr ==
    [keys |-> AddrKeys, raw |-> <<" ">>, tokens |-> {<<"4","5","6">>, <<"O","C","E","A","N">>, <<"D","R">>},
     street_num |-> <<"4","5","6">>, street_name |-> <<"O","C","E","A","N">>]

NormalizedTargetNames == {normalize_name(s) : s \in ScoreNameStrings}
NormalizedTargetAddrs == {normalize_address(s) : s \in ScoreAddrStrings}
ScoreTargetNames == NormalizedTargetNames \cup {TargetWarrenJ}
ScoreTargetAddrs == NormalizedTargetAddrs \cup {BlankRawAddr}

ScoreCandNames == {<<"M","A","R","I","A"," ","G","A","R","C","I","A">>, <<"S","P","E","N","C","E","R"," ","W","A","R","R","E","N"," ","J">>, <<"S","M","I","T","H"," ","J","O","N">>, <<>>}
ScoreCandAddrs == {<<"4","5","6"," ","O","C","E","A","N"," ","D","R"," ","M","I","A","M","I"," ","F","L"," ","3","3","1","3","9">>, <<"7","8","9"," ","E","L","S","E","W","H","E","R","E"," ","S","T">>, <<>>}
ScoreCandPhones == {<<"(","3","0","5",")"," ","5","5","5","-","1","2","3","4">>, <<"3","0","5",".","5","5","5",".","1","2","3","4">>, <<>>, None}
ScoreCandTexts == {<<"M","I","A","M","I"," ","F","L"," ","3","3","1","3","9">>, <<>>}
ScoreCandKeys == {CandKeys, {"name", "address", "phone", "all_phones"},
                  {"name", "address", "all_phones"}}

ScoreCandidates ==
    {Cand(k, n, a, <<a, <<"1","2"," ","P","I","N","E"," ","A","V","E"," ","T","A","M","P","A"," ","F","L">>>>, p, << <<"(","7","8","6",")"," ","5","5","5","-","7","7","7","7">> >>, r) :
        k \in ScoreCandKeys, n \in ScoreCandNames, a \in ScoreCandAddrs,
        p \in ScoreCandPhones, r \in ScoreCandTexts}

InitScore ==
    /\ pc = "score"
    /\ target_name \in ScoreTargetNames
    /\ target_addr \in ScoreTargetAddrs
    /\ candidate \in ScoreCandidates
    /\ score = RInt(0)
    /\ candidates = <<>> /\ groups = <<>> /\ phones = NoPhones
    /\ phone_str = None /\ phone_norm = None
    /\ name_str = None /\ addr_str = None
    /\ runner = NoRunner /\ workers = <<>> /\ log = <<>>
    /\ args = NoArgs /\ row_range = <<0, 0>>

\* score_candidate(target_name, target_addr, candidate), as commands.py calls it
ScoreCandidate ==
    /\ pc = "score"
    /\ pc' = "scored"
    /\ score' = ScoreCandidateCall(target_name, target_addr, candidate)
    /\ UNCHANGED <<runner, workers, log, args, row_range,
                   name_str, addr_str,
                   phone_str, phone_norm, target_name, target_addr, candidates,
                   candidate, groups, phones>>

NextScore == ScoreCandidate

SpecScore == InitScore /\ [][NextScore]_vars

(***************************************************************************)
(* Specification of normalize_phone: digit strings written in the formats  *)
(* of settings.PHONE_PATTERNS and a few malformed ones.                    *)
(***************************************************************************)
MaxDigits == 11
PhoneDigitAlphabet == {"3", "5"}

DigitStrings == UNION {[1..n -> PhoneDigitAlphabet] : n \in 0..MaxDigits}

\* separators written before the digits, after the 3rd, after the 6th, at the end
PhoneFormats ==
    { << <<>>, <<>>, <<>>, <<>> >>,
      << <<"(">>, <<")", " ">>, <<"-">>, <<>> >>,
      << <<>>, <<".">>, <<".">>, <<>> >>,
      << <<"+">>, <<" ">>, <<" ">>, <<" ", "x">> >> }

FormatPhone(f, d) ==
    f[1] \o Slice(d, 0, 3) \o f[2] \o Slice(d, 3, 6) \o f[3]
         \o Slice(d, 6, Len(d)) \o f[4]

PhoneInputs == {FormatPhone(f, d) : f \in PhoneFormats, d \in DigitStrings} \cup {None}

InitPhone ==
    /\ pc = "phone"
    /\ phone_str \in PhoneInputs
    /\ phone_norm = None
    /\ target_name = EmptyDict /\ target_addr = EmptyDict
    /\ candidates = <<>> /\ groups = <<>> /\ phones = NoPhones
    /\ name_str = None /\ addr_str = None
    /\ runner = NoRunner /\ workers = <<>> /\ log = <<>>
    /\ args = NoArgs /\ row_range = <<0, 0>>
    /\ candidate = NoCandidate /\ score = RInt(0)

\* one call normalize_phone(phone_str)
NormalizePhone ==
    /\ pc = "phone"
    /\ phone_norm' = normalize_phone(phone_str)
    /\ pc' = "phone_done"
    /\ UNCHANGED <<runner, workers, log, args, row_range,
                   name_str, addr_str,
                   phone_str, target_name, target_addr, candidates, candidate,
                   score, groups, phones>>

\* a normalized number is normalized again (_collect_group_phones is handed
\* numbers that extract_phones_from_text already normalized)
RenormalizePhone ==
    /\ pc = "phone_done"
    /\ phone_norm # None
    /\ phone_str' = phone_norm
    /\ pc' = "phone"
    /\ UNCHANGED <<runner, workers, log, args, row_range,
                   name_str, addr_str,
                   phone_norm, target_name, target_addr, candidates, candidate,
                   score, groups, phones>>

NextPhone == NormalizePhone \/ RenormalizePhone

SpecPhone == InitPhone /\ [][NextPhone]_vars


(***************************************************************************)
(* Specification of the component scores: the target is normalized from    *)
(* the name and address text, then score_name_match or                     *)
(* score_address_match is called once on a candidate's fields.             *)
(***************************************************************************)
MatchNameStrings ==
    {<<"S","M","I","T","H"," ","J","O","H","N">>, <<"S","P","E","N","C","E","R"," ","W","A","R","R","E","N"," ","J">>, <<"J","O","H","N"," ","A","D","A","M"," ","S","M","I","T","H">>, <<"G","A","R","C","I","A"," ","M","A","R","I","A">>,
     <<"E","S","T","R","A","D","A"," ","C","A","S","T","R","O"," ","M","A","R","T","H","A"," ","L","U","Z">>, <<"P","E","R","E","Z"," ","A","N","A"," ","L","U","C","I","A">>, <<"M","A","D","O","N","N","A">>,
     <<"J","O","H","N"," ","Q"," ","P","U","B","L","I","C">>, <<"J">>, <<" ">>, <<>>}

MatchAddrStrings ==
    {<<"4","5","6"," ","O","C","E","A","N"," ","D","R"," ","M","I","A","M","I"," ","F","L">>, <<"M","A","I","N"," ","S","T"," ","1","2","3">>, <<"1","2","3"," ","S","T"," ","M","A","I","N">>,
     <<"4","5","6"," ","O","C","E","A","N"," ","D","R"," ","3","3","1","3","9">>, <<"1","2","3"," ","M","A","I","N"," ","S","T">>, <<" ">>, <<>>}

MatchCandNames ==
    {<<"S","M","I","T","H"," ","J","O","H","N">>, <<"S","M","I","T","H"," ","J","O","H","N","N","Y">>, <<"S","M","I","T","H"," ","J","O","N">>, <<"J","O","H","N"," ","S","M","I","T","H">>,
     <<"S","P","E","N","C","E"," ","W","A","R","R","E","N"," ","J">>, <<"S","P","E","N","C","E","R"," ","W","A","R","R","E","N"," ","J">>, <<"M","A","R","I","A"," ","G","A","R","C","I","A">>, <<" ">>, <<>>, None}

MatchCandAddrLists ==
    {<<>>, << <<>> >>, << <<"4","5","6"," ","O","C","E","A","N"," ","D","R"," ","M","I","A","M","I"," ","F","L"," ","3","3","1","3","9">> >>,
     << <<"7","8","9"," ","E","L","S","E","W","H","E","R","E"," ","S","T">>, <<>>, <<"1","2","3"," ","M","A","I","N"," ","S","T">> >>,
     << <<"4","5","6"," ","P","I","N","E"," ","A","V","E">>, <<"7","8","9"," ","E","L","S","E","W","H","E","R","E"," ","S","T">> >>,
     << <<"1","2","3"," ","M","A","I","N"," ","S","T","R","E","E","T"," ","A","P","T"," ","4">> >>}

\* candidates with and without the addresses key
MatchCandidates ==
    {Cand(CandKeys, n, IF l # <<>> THEN l[1] ELSE <<>>, l, <<"(","3","0","5",")"," ","5","5","5","-","1","2","3","4">>,
          <<>>, <<>>) : n \in MatchCandNames, l \in MatchCandAddrLists}
    \cup {Cand({"name", "address", "phone"}, n, a, <<>>, <<"(","3","0","5",")"," ","5","5","5","-","1","2","3","4">>,
               <<>>, <<>>) :
             n \in {<<"S","M","I","T","H"," ","J","O","H","N">>},
             a \in {<<"1","2","3"," ","M","A","I","N"," ","S","T">>, <<"4","5","6"," ","O","C","E","A","N"," ","D","R"," ","M","I","A","M","I"," ","F","L">>, <<>>, None}}

InitMatch ==
    /\ pc = "raw"
    /\ name_str \in MatchNameStrings
    /\ addr_str \in MatchAddrStrings
    /\ candidate \in MatchCandidates
    /\ target_name = EmptyDict /\ target_addr = EmptyDict
    /\ score = RInt(0)
    /\ candidates = <<>> /\ groups = <<>> /\ phones = NoPhones
    /\ phone_str = None /\ phone_norm = None
    /\ runner = NoRunner /\ workers = <<>> /\ log = <<>>
    /\ args = NoArgs /\ row_range = <<0, 0>>

\* target_name = normalize_name(name); target_addr = normalize_address(address)
NormalizeTarget ==
    /\ pc = "raw"
    /\ pc' = "target"
    /\ target_name' = normalize_name(name_str)
    /\ target_addr' = normalize_address(addr_str)
    /\ UNCHANGED <<runner, workers, log, args, row_range,
                   name_str, addr_str, phone_str, phone_norm, candidates,
                   candidate, score, groups, phones>>

\* a call of score_name_match: the number it returns or the exception it raises
ScoreNameMatchCall(target_name_, candidate_name) ==
    LET Outcome(error) ==
            IF error # "" THEN Raised(error)
            ELSE score_name_match(target_name_, candidate_name)
    IN  Outcome(ScoreNameMatchError(target_name_, candidate_name))

\* name_score = score_name_match(target_name, candidate.get('name', ''))
ScoreNameMatch ==
    /\ pc = "target"
    /\ pc' = "name_scored"
    /\ score' = ScoreNameMatchCall(target_name, GetName(candidate))
    /\ UNCHANGED <<runner, workers, log, args, row_range,
                   name_str, addr_str, phone_str, phone_norm, target_name,
                   target_addr, candidates, candidate, groups, phones>>

\* addr_score = score_address_match(target_addr, candidate_addresses)
ScoreAddressMatch ==
    /\ pc = "target"
    /\ pc' = "addr_scored"
    /\ score' = score_address_match(target_addr, CandidateAddresses(candidate))
    /\ UNCHANGED <<runner, workers, log, args, row_range,
                   name_str, addr_str, phone_str, phone_norm, target_name,
                   target_addr, candidates, candidate, groups, phones>>

NextMatch == NormalizeTarget \/ ScoreNameMatch \/ ScoreAddressMatch

SpecMatch == InitMatch /\ [][NextMatch]_vars

(***************************************************************************)
(* Specification of gui/runner.py: the main thread calls run() and stop(), *)
(* every accepted run() starts a worker thread that spawns the child,      *)
(* reads its output to the end, waits for it and calls on_exit.            *)
(***************************************************************************)
MaxRuns == 3
MaxLog == 2

InitRunner ==
    /\ pc = "gui"
    /\ runner = NoRunner /\ workers = <<>> /\ log = <<>>
    /\ args = NoArgs /\ row_range = <<0, 0>>
    /\ target_name = EmptyDict /\ target_addr = EmptyDict
    /\ candidates = <<>> /\ groups = <<>> /\ phones = NoPhones
    /\ Idle

\* run(): refused when _proc is set, else a thread is created and started
Run ==
    /\ pc = "gui"
    /\ IF runner._proc # 0
       THEN /\ Len(log) < MaxLog
            /\ log' = Append(log, "[runner] A process is already running.")
            /\ UNCHANGED <<runner, workers>>
       ELSE /\ Len(workers) < MaxRuns
            /\ workers' = Append(workers, [pc |-> "popen", child |-> "none",
                                           reading |-> 0, waiting |-> 0,
                                           rc |-> -1, exits |-> 0])
            /\ runner' = [runner EXCEPT !._thread = Len(workers) + 1]
            /\ UNCHANGED log
    /\ UNCHANGED <<args, row_range, pc, phone_str, phone_norm, name_str, addr_str,
                   target_name, target_addr, candidates, candidate, score,
                   groups, phones>>

\* target(), lines 25-38: self._proc = subprocess.Popen(...), or the
\* exception Popen raises
Popen(w) ==
    /\ workers[w].pc = "popen"
    /\ \E started \in BOOLEAN :
          IF started
          THEN /\ workers' = [workers EXCEPT ![w].pc = "read",
                                             ![w].child = "running"]
               /\ runner' = [runner EXCEPT !._proc = w]
          ELSE /\ workers' = [workers EXCEPT ![w].pc = "finally"]
               /\ UNCHANGED runner
    /\ UNCHANGED <<log, args, row_range, pc, phone_str, phone_norm, name_str, addr_str,
                   target_name, target_addr, candidates, candidate, score,
                   groups, phones>>

\* lines 39-40: self._proc.stdout is read from the field, which another
\* thread may have set to None or to its own child in the meantime
Read(w) ==
    /\ workers[w].pc = "read"
    /\ workers' = IF runner._proc = 0
                  THEN [workers EXCEPT ![w].pc = "finally"]
                  ELSE [workers EXCEPT ![w].pc = "eof",
                                       ![w].reading = runner._proc]
    /\ UNCHANGED <<runner, log, args, row_range, pc, phone_str, phone_norm, name_str, addr_str,
                   target_name, target_addr, candidates, candidate, score,
                   groups, phones>>

\* lines 40-44: the loop ends when the child read from has exited; then
\* self._proc.wait() is called on whatever the field holds
Eof(w) ==
    /\ workers[w].pc = "eof"
    /\ workers[workers[w].reading].child = "exited"
    /\ workers' = IF runner._proc = 0
                  THEN [workers EXCEPT ![w].pc = "finally"]
                  ELSE [workers EXCEPT ![w].pc = "wait",
                                       ![w].waiting = runner._proc]
    /\ UNCHANGED <<runner, log, args, row_range, pc, phone_str, phone_norm, name_str, addr_str,
                   target_name, target_addr, candidates, candidate, score,
                   groups, phones>>

\* line 44: wait() returns the exit code once the child waited for has exited
Wait(w) ==
    /\ workers[w].pc = "wait"
    /\ workers[workers[w].waiting].child = "exited"
    /\ workers' = [workers EXCEPT ![w].pc = "finally", ![w].rc = 0]
    /\ UNCHANGED <<runner, log, args, row_range, pc, phone_str, phone_norm, name_str, addr_str,
                   target_name, target_addr, candidates, candidate, score,
                   groups, phones>>

\* lines 47-50: self._proc = None; on_exit(rc)
Finally(w) ==
    /\ workers[w].pc = "finally"
    /\ runner' = [runner EXCEPT !._proc = 0]
    /\ workers' = [workers EXCEPT ![w].pc = "done",
                                  ![w].exits = workers[w].exits + 1]
    /\ UNCHANGED <<log, args, row_range, pc, phone_str, phone_norm, name_str, addr_str,
                   target_name, target_addr, candidates, candidate, score,
                   groups, phones>>

\* the child process of worker w ends by itself
ChildExit(w) ==
    /\ workers[w].child = "running"
    /\ workers' = [workers EXCEPT ![w].child = "exited"]
    /\ UNCHANGED <<runner, log, args, row_range, pc, phone_str, phone_norm, name_str, addr_str,
                   target_name, target_addr, candidates, candidate, score,
                   groups, phones>>

\* stop(): the child in _proc is terminated if it still runs
Stop ==
    /\ pc = "gui"
    /\ IF runner._proc # 0 /\ workers[runner._proc].child = "running"
       THEN /\ workers' = [workers EXCEPT ![runner._proc].child = "exited"]
            /\ UNCHANGED log
       ELSE /\ Len(log) < MaxLog
            /\ log' = Append(log, "[runner] No active process.")
            /\ UNCHANGED workers
    /\ UNCHANGED <<runner, args, row_range, pc, phone_str, phone_norm, name_str, addr_str,
                   target_name, target_addr, candidates, candidate, score,
                   groups, phones>>

NextRunner ==
    \/ Run
    \/ Stop
    \/ \E w \in 1..Len(workers) :
          \/ Popen(w)
          \/ Read(w)
          \/ Eof(w)
          \/ Wait(w)
          \/ Finally(w)
          \/ ChildExit(w)

SpecRunner == InitRunner /\ [][NextRunner]_vars

(***************************************************************************)
(* Specification of the row range of process_file: the range is computed   *)
(* from the command line, validated, and the accepted rows are read.       *)
(***************************************************************************)
min(a, b) == IF a <= b THEN a ELSE b
max(a, b) == IF a >= b THEN a ELSE b

calculate_row_range(a) ==
    LET total_rows == a.total_rows IN
    IF a.from_row = 0 /\ a.to_row = 0 /\ a.limit = 0 /\ a.last = 0
    THEN LET start_idx == IF a.start_row # 0 THEN a.start_row ELSE 0 IN
         IF a.end_row # 0 THEN <<start_idx, min(a.end_row + 1, total_rows)>>
         ELSE IF a.max_rows # 0
              THEN <<start_idx, min(start_idx + a.max_rows, total_rows)>>
              ELSE <<start_idx, total_rows>>
    ELSE LET start_idx == IF a.from_row # 0 THEN max(0, a.from_row - 1) ELSE 0 IN
         IF a.to_row # 0 THEN <<start_idx, min(a.to_row, total_rows)>>
         ELSE IF a.limit # 0
              THEN <<start_idx, min(start_idx + a.limit, total_rows)>>
              ELSE IF a.last # 0
                   THEN <<max(0, total_rows - a.last), total_rows>>
                   ELSE <<start_idx, total_rows>>

validate_row_range(start_idx, end_idx, total_rows, a) ==
    IF a.from_row # 0 /\ a.from_row > total_rows THEN FALSE
    ELSE IF a.from_row # 0 /\ a.to_row # 0 /\ a.from_row > a.to_row THEN FALSE
    ELSE IF a.last # 0 /\ a.last > total_rows THEN FALSE
    ELSE IF start_idx >= end_idx THEN FALSE
    ELSE TRUE

\* the values of an integer option (argparse type=int takes any integer; 0
\* also stands for an option that was not given) and the lengths of the file
InitRows ==
    /\ pc = "args"
    /\ LET options == {-3, 0, 2, 5}
           lengths == {0, 2, 4}
       IN args \in [start_row : options, end_row : options,
                    max_rows : options, from_row : options,
                    to_row : options, limit : options,
                    last : options, total_rows : lengths]
    /\ row_range = <<0, 0>>
    /\ runner = NoRunner /\ workers = <<>> /\ log = <<>>
    /\ phone_str = None /\ phone_norm = None
    /\ name_str = None /\ addr_str = None
    /\ target_name = EmptyDict /\ target_addr = EmptyDict
    /\ candidates = <<>> /\ candidate = NoCandidate /\ score = RInt(0)
    /\ groups = <<>> /\ phones = NoPhones

\* commands.py line 98
CalculateRowRange ==
    /\ pc = "args"
    /\ row_range' = calculate_row_range(args)
    /\ pc' = "range"
    /\ UNCHANGED <<runner, workers, log, args, phone_str, phone_norm, name_str,
                   addr_str, target_name, target_addr, candidates, candidate,
                   score, groups, phones>>

\* commands.py lines 101-102
ValidateRowRange ==
    /\ pc = "range"
    /\ pc' = IF validate_row_range(row_range[1], row_range[2],
                                   args.total_rows, args)
             THEN "accepted" ELSE "rejected"
    /\ UNCHANGED <<runner, workers, log, args, row_range, phone_str, phone_norm,
                   name_str, addr_str, target_name, target_addr, candidates,
                   candidate, score, groups, phones>>

\* commands.py lines 113-114: every index of range(start_idx, end_idx) is
\* read with df.iloc, where an index from -len(df) to len(df) - 1 names a
\* row and any other raises IndexError
ReadRows ==
    /\ pc = "accepted"
    /\ pc' = IF \A idx \in row_range[1]..(row_range[2] - 1) :
                   -args.total_rows <= idx /\ idx < args.total_rows
             THEN "processed" ELSE "IndexError"
    /\ UNCHANGED <<runner, workers, log, args, row_range, phone_str, phone_norm,
                   name_str, addr_str, target_name, target_addr, candidates,
                   candidate, score, groups, phones>>

NextRows == CalculateRowRange \/ ValidateRowRange \/ ReadRows

SpecRows == InitRows /\ [][NextRows]_vars
(***************************************************************************)
(* Properties                                                              *)
(***************************************************************************)
\* exactly "(DDD) DDD-DDDD"
CanonicalPhone(p) ==
    /\ Len(p) = 14
    /\ p[1] = "(" /\ p[5] = ")" /\ p[6] = " " /\ p[10] = "-"
    /\ \A i \in {2, 3, 4, 7, 8, 9, 11, 12, 13, 14} : p[i] \in DigitChars

Returned == pc = "selected" /\ ~IsRaised(phones)

\* C1: each of the four values returned by select_top_two_groups_phones is
\* the empty string or a string of the exact form "(DDD) DDD-DDDD".
C1_PhonesWellFormed ==
    Returned => \A k \in 1..4 : phones[k] = <<>> \/ CanonicalPhone(phones[k])

\* a number written "305.555.1234" in the batch comes out as "(305) 555-1234"
C1_Witness ==
    /\ Returned
    /\ candidates = <<SpencerJ>>
    /\ phones[1] = <<"(","3","0","5",")"," ","5","5","5","-","1","2","3","4">>
    /\ phones[2] = <<"(","7","8","6",")"," ","5","5","5","-","0","0","0","0">>

NoPhoneField(c) == "phone" \notin c.keys \/ c.phone = None \/ c.phone = <<>>

\* C2: score_candidate returns exactly 0 for a candidate whose phone field is
\* missing, None or empty, whatever the targets and the other fields are.
C2_NoPhoneScoresZero ==
    (pc = "scored" /\ NoPhoneField(candidate)) => score = RInt(0)

\* a phone-less candidate whose name and address match the target exactly
C2_Witness ==
    /\ pc = "scored"
    /\ "phone" \in candidate.keys /\ candidate.phone = None
    /\ candidate.name = <<"M","A","R","I","A"," ","G","A","R","C","I","A">>
    /\ candidate.address = <<"4","5","6"," ","O","C","E","A","N"," ","D","R"," ","M","I","A","M","I"," ","F","L"," ","3","3","1","3","9">>
    /\ target_name = normalize_name(<<"G","A","R","C","I","A"," ","M","A","R","I","A">>)
    /\ target_addr = normalize_address(<<"4","5","6"," ","O","C","E","A","N"," ","D","R"," ","M","I","A","M","I"," ","F","L">>)
    /\ score = RInt(0)

\* the normalized numbers candidate c hands to _collect_group_phones
NormalizedNumbers(c) ==
    {normalize_phone(CandidateNumbers(c)[i]) : i \in 1..Len(CandidateNumbers(c))}
        \ {None}

\* C3: no number appears among phone1..phone4 unless a candidate with a
\* non-empty phone field contributes it; numbers that only phone-less
\* candidates list in all_phones are never selected.
C3_NoPhoneNeverSelected ==
    Returned =>
        \A k \in 1..4 :
            phones[k] # <<>> =>
                \E i \in 1..Len(candidates) :
                    /\ ~NoPhoneField(candidates[i])
                    /\ phones[k] \in NormalizedNumbers(candidates[i])

\* C4: for targets produced by normalize_name and normalize_address, the value
\* returned by score_candidate lies in the closed range [0, 100].
C4_ScoreInRange ==
    (/\ pc = "scored"
     /\ target_name \in NormalizedTargetNames
     /\ target_addr \in NormalizedTargetAddrs
     /\ ~IsRaised(score))
        => RLe(RInt(0), score) /\ RLe(score, RInt(100))

\* the top of the range is reached by a candidate whose best address scores
\* above 100 before score_address_match clamps it
C4_Witness ==
    /\ pc = "scored"
    /\ target_name \in NormalizedTargetNames
    /\ target_addr \in NormalizedTargetAddrs
    /\ ~NoPhoneField(candidate)
    /\ RLt(RInt(100), MaxAddressScore(target_addr, CandidateAddresses(candidate),
                                      RInt(0)))
    /\ score = RInt(100)

\* the target address raw text has a character that is not whitespace
RawNonBlank(target_addr_) ==
    /\ "raw" \in target_addr_.keys
    /\ target_addr_.raw # None
    /\ \E i \in 1..Len(target_addr_.raw) : ~IsSpace(target_addr_.raw[i])

\* (wn*name + wa*address + wl*location + wq*quality) / 100
WeightedSum(wn, wa, wl, wq, target_name_, target_addr_, c) ==
    RDiv(RAdd(RAdd(RMul(RInt(wn), score_name_match(target_name_, GetName(c))),
                   RMul(RInt(wa), score_address_match(target_addr_,
                                                      CandidateAddresses(c)))),
              RAdd(RMul(RInt(wl), RInt(score_location_context(GetRawText(c)))),
                   RMul(RInt(wq), RInt(score_data_quality(c))))),
         RInt(100))

\* C5: for a phone-bearing candidate score_candidate is the weighted sum of the
\* four component scores, with weights .35/.45/.15/.05 when the target raw
\* address is non-blank and .50/.10/.30/.10 when it is empty or whitespace.
C5_WeightedSum ==
    (pc = "scored" /\ ~NoPhoneField(candidate) /\ ~IsRaised(score)) =>
        score = IF RawNonBlank(target_addr)
                THEN WeightedSum(35, 45, 15, 5, target_name, target_addr, candidate)
                ELSE WeightedSum(50, 10, 30, 10, target_name, target_addr, candidate)

\* a whitespace-only raw address with a candidate whose address still scores
C5_Witness ==
    /\ pc = "scored"
    /\ ~NoPhoneField(candidate)
    /\ ~IsRaised(score)
    /\ target_addr = BlankRawAddr
    /\ RLt(RInt(0), score_address_match(target_addr, CandidateAddresses(candidate)))
    /\ RLt(RInt(0), score_name_match(target_name, GetName(candidate)))

\* the group of the batch that holds the candidate at position i
GroupOf(i) ==
    CHOOSE g \in 1..Len(groups) :
        groups[g].key = _build_person_key(candidates[i])

\* C6: candidates named "SPENCER WARREN J" and "SPENCER WARREN L" receive
\* different person keys and land in two different groups.
C6_InitialsSeparate ==
    \A i, j \in 1..Len(candidates) :
        (/\ GetName(candidates[i]) = <<"S","P","E","N","C","E","R"," ","W","A","R","R","E","N"," ","J">>
         /\ GetName(candidates[j]) = <<"S","P","E","N","C","E","R"," ","W","A","R","R","E","N"," ","L">>)
            => /\ _build_person_key(candidates[i]) # _build_person_key(candidates[j])
               /\ (Returned => GroupOf(i) # GroupOf(j))

\* C7: "SPENCER WARREN J" and "WARREN J SPENCER" both normalize to
\* first=WARREN, last=SPENCER, middle initial J and receive the same person key.
C7_OrdersMerge ==
    \A i, j \in 1..Len(candidates) :
        (/\ GetName(candidates[i]) = <<"S","P","E","N","C","E","R"," ","W","A","R","R","E","N"," ","J">>
         /\ GetName(candidates[j]) = <<"W","A","R","R","E","N"," ","J"," ","S","P","E","N","C","E","R">>)
            => /\ \A k \in {i, j} :
                    LET n == normalize_name(GetName(candidates[k]))
                    IN  /\ n.first = <<"W","A","R","R","E","N">> /\ n.last = <<"S","P","E","N","C","E","R">>
                        /\ n.middle_initial = <<"J">>
               /\ _build_person_key(candidates[i]) = _build_person_key(candidates[j])

\* C8: select_top_two_groups_phones on an empty candidate list returns four
\* empty strings for every target, the empty dicts included (no subscript of
\* a target is evaluated, so nothing is raised).
C8_EmptyBatch ==
    (pc = "selected" /\ candidates = <<>>) => phones = NoPhones

C8_Witness ==
    /\ pc = "selected"
    /\ candidates = <<>>
    /\ target_name = EmptyDict /\ target_addr = EmptyDict
    /\ phones = NoPhones

\* C9: candidates that share a person key form one group: the two
\* "MARIA GARCIA" candidates of the end-to-end scenario give
\* ("(305) 555-1234", "(305) 555-5678", "", ""), and whenever all candidates
\* of a batch share one key, phone3 and phone4 are empty.
C9_SharedKeyOneGroup ==
    /\ (/\ Returned
        /\ target_name = normalize_name(<<"G","A","R","C","I","A"," ","M","A","R","I","A">>)
        /\ target_addr = normalize_address(<<"4","5","6"," ","O","C","E","A","N"," ","D","R"," ","M","I","A","M","I"," ","F","L">>)
        /\ candidates = <<MariaOcean, MariaElsewhere>>)
           => phones = << <<"(","3","0","5",")"," ","5","5","5","-","1","2","3","4">>, <<"(","3","0","5",")"," ","5","5","5","-","5","6","7","8">>, <<>>, <<>> >>
    /\ (/\ Returned
        /\ \A i, j \in 1..Len(candidates) :
              _build_person_key(candidates[i]) = _build_person_key(candidates[j]))
           => phones[3] = <<>> /\ phones[4] = <<>>

C9_Witness ==
    /\ Returned
    /\ target_name = normalize_name(<<"G","A","R","C","I","A"," ","M","A","R","I","A">>)
    /\ target_addr = normalize_address(<<"4","5","6"," ","O","C","E","A","N"," ","D","R"," ","M","I","A","M","I"," ","F","L">>)
    /\ candidates = <<MariaOcean, MariaElsewhere>>
    /\ Len(groups) = 1
    /\ phones[2] = <<"(","3","0","5",")"," ","5","5","5","-","5","6","7","8">>

\* the digits of s, in order
DigitsIn(s) ==
    IF s = None THEN <<>>
    ELSE LET at == SortedInts({i \in 1..Len(s) : s[i] \in DigitChars})
         IN  [k \in 1..Len(at) |-> s[at[k]]]

\* C10: normalize_phone depends only on the digits of its input: it returns
\* "(d1d2d3) d4d5d6-d7d8d9d10" when there are exactly 10 of them and None
\* otherwise, and a normalized number normalizes to itself.
C10_PhoneByDigits ==
    pc = "phone_done" =>
        LET d == DigitsIn(phone_str)
        IN  /\ Len(d) = 10 =>
                phone_norm = <<"(", d[1], d[2], d[3], ")", " ", d[4], d[5], d[6],
                               "-", d[7], d[8], d[9], d[10]>>
            /\ Len(d) # 10 => phone_norm = None
            /\ (phone_str # None /\ CanonicalPhone(phone_str))
                   => phone_norm = phone_str

\* ten digits written with dots come out in the canonical form
C10_Witness ==
    /\ pc = "phone_done"
    /\ phone_str = <<"3","5","5",".","5","3","5",".","3","3","5","5">>
    /\ phone_norm = <<"(","3","5","5",")"," ","5","3","5","-","3","3","5","5">>

(***************************************************************************)
(* Properties of the component scores and of name normalization            *)
(***************************************************************************)
\* the candidate name of the call in the state, normalized
CandName == normalize_name(GetName(candidate))

\* first and last of the target both non-empty and equal to the candidate's
ExactRule ==
    /\ target_name.first # <<>> /\ target_name.last # <<>>
    /\ target_name.first = CandName.first
    /\ target_name.last = CandName.last

\* last names equal and non-empty, and the candidate's first name begins with
\* the first three characters of the target's first name
PrefixRule ==
    LET head == SubSeq(target_name.first, 1,
                       IF Len(target_name.first) < 3
                       THEN Len(target_name.first) ELSE 3)
    IN  /\ target_name.last # <<>>
        /\ target_name.last = CandName.last
        /\ Len(CandName.first) >= Len(head)
        /\ SubSeq(CandName.first, 1, Len(head)) = head

\* the larger of the two token-set ratios, on full names and on search names
FuzzyBase ==
    RMax(token_set_ratio(target_name.full, CandName.full),
         token_set_ratio(target_name.search_variants[1].search_name,
                         CandName.search_variants[1].search_name))

\* C11: score_name_match follows a fixed ladder: 0 for an empty candidate
\* name, else 100 when first and last both match, else 95 when the last names
\* match and the candidate's first name starts with the first 3 characters of
\* the target's, and only otherwise the fuzzy score; target JOHN SMITH
\* against candidate "SMITH JOHN" gives 100.
C11_NameLadder ==
    pc = "name_scored" =>
        /\ IF ~Truthy(GetName(candidate)) THEN score = RInt(0)
           ELSE IF ExactRule THEN score = RInt(100)
           ELSE IF PrefixRule THEN score = RInt(95)
           ELSE \/ IsRaised(score)
                \/ score \in {FuzzyBase, RAdd(FuzzyBase, RInt(30))}
        /\ (/\ target_name.first = <<"J","O","H","N">> /\ target_name.last = <<"S","M","I","T","H">>
            /\ GetName(candidate) = <<"S","M","I","T","H"," ","J","O","H","N">>) => score = RInt(100)

\* the 95 rung: target JOHN SMITH against candidate "SMITH JOHNNY"
C11_Witness ==
    /\ pc = "name_scored"
    /\ name_str = <<"S","M","I","T","H"," ","J","O","H","N">>
    /\ GetName(candidate) = <<"S","M","I","T","H"," ","J","O","H","N","N","Y">>
    /\ ~ExactRule /\ PrefixRule
    /\ score = RInt(95)

\* the single-letter middle initial written in a name of three tokens
\* (LAST FIRST M or FIRST M LAST); "" when there is none
NameInitial(s) ==
    IF ~Truthy(s) THEN <<>>
    ELSE LET parts == Split(StrUpper(s))
         IN  IF Len(parts) = 3 /\ Len(parts[3]) = 1 THEN parts[3]
             ELSE IF Len(parts) = 3 /\ Len(parts[2]) = 1 THEN parts[2]
             ELSE <<>>

\* C12: on the fuzzy path, when the target name and the candidate name carry
\* the same single-letter middle initial, score_name_match returns the fuzzy
\* base plus 30.
C12_MiddleBonus ==
    (/\ pc = "name_scored"
     /\ Truthy(GetName(candidate))
     /\ ~ExactRule /\ ~PrefixRule
     /\ NameInitial(name_str) # <<>>
     /\ NameInitial(name_str) = NameInitial(GetName(candidate)))
        => score = RAdd(FuzzyBase, RInt(30))

\* C13: search_variants of normalize_name always holds a "basic" variant, and
\* holds a "middle_initial" variant only if a single-letter middle token was
\* detected.
C13_BasicVariantAlways ==
    pc # "raw" =>
        LET sv == target_name.search_variants
        IN  /\ \E i \in 1..Len(sv) : sv[i].variant_type = "basic"
            /\ (\E i \in 1..Len(sv) : sv[i].variant_type = "middle_initial")
                   => /\ target_name.has_middle
                      /\ (Len(target_name.middle) = 1
                          \/ Len(target_name.middle_initial) = 1)

\* the similarity of every non-empty address of the candidate's list
AddressSimilarities ==
    LET l == CandidateAddresses(candidate)
    IN  {calculate_address_similarity(target_addr, normalize_address(l[i])) :
            i \in {k \in 1..Len(l) : Truthy(l[k])}}

\* an address a later scrape may add to the candidate's list
MoreAddresses ==
    {<<"4","5","6"," ","O","C","E","A","N"," ","D","R"," ","M","I","A","M","I"," ","F","L"," ","3","3","1","3","9">>, <<"7","8","9"," ","E","L","S","E","W","H","E","R","E"," ","S","T">>, <<"1","2","3"," ","M","A","I","N"," ","S","T">>, <<>>}

\* score_address_match of every target address on every candidate list with
\* one more address appended
AppendedScore ==
    [s \in MatchAddrStrings,
     l \in {CandidateAddresses(c) : c \in MatchCandidates},
     a \in MoreAddresses |->
        score_address_match(normalize_address(s), Append(l, a))]

\* C14: score_address_match is min(100, max of calculate_address_similarity
\* over the non-empty addresses of the list), 0 when there is none; so it lies
\* in [0, 100] and appending an address never lowers it.
C14_AddressMax ==
    pc = "addr_scored" =>
        /\ LET MaxOf(sims) ==
                   /\ sims = {} => score = RInt(0)
                   /\ sims # {} =>
                          score = RMin(RInt(100),
                                       CHOOSE m \in sims : \A s \in sims : RLe(s, m))
           IN  MaxOf(AddressSimilarities)
        /\ RLe(RInt(0), score) /\ RLe(score, RInt(100))
        /\ \A a \in MoreAddresses :
               RLe(score, AppendedScore[addr_str, CandidateAddresses(candidate), a])

\* the best address is not the last of the list and scores strictly between
\* 0 and 100
C14_Witness ==
    /\ pc = "addr_scored"
    /\ addr_str = <<"4","5","6"," ","O","C","E","A","N"," ","D","R"," ","M","I","A","M","I"," ","F","L">>
    /\ CandidateAddresses(candidate) = << <<"4","5","6"," ","P","I","N","E"," ","A","V","E">>, <<"7","8","9"," ","E","L","S","E","W","H","E","R","E"," ","S","T">> >>
    /\ RLt(RInt(0), score) /\ RLt(score, RInt(100))
    /\ score = calculate_address_similarity(target_addr,
                                            normalize_address(<<"4","5","6"," ","P","I","N","E"," ","A","V","E">>))

\* the orders in which n tokens can be written
TokenOrders(n) ==
    {f \in [1..n -> 1..n] : \A i, j \in 1..n : f[i] = f[j] => i = j}

\* the address strings made of the tokens of s in any order
Reordered(s) ==
    LET words == IF Truthy(s) THEN Split(s) ELSE <<>>
    IN  {JoinSp([i \in 1..Len(words) |-> words[f[i]]]) :
            f \in TokenOrders(Len(words))}

\* normalize_address of every reordering of the target address strings
ReorderedAddress ==
    [r \in UNION {Reordered(s) : s \in MatchAddrStrings} |-> normalize_address(r)]

\* C15 as claimed: address strings made of the same tokens in a different
\* order normalize to the same tokens set and the same street_name.
C15_OrderIndependent ==
    pc = "target" =>
        \A r \in Reordered(addr_str) :
            /\ ReorderedAddress[r].tokens = target_addr.tokens
            /\ ReorderedAddress[r].street_name = target_addr.street_name

\* C15 amended: address strings made of the same tokens in a different order
\* normalize to the same tokens set, and to the same street_name whenever
\* they have the same street_num (the first bare digit run).
C15_OrderIndependentSameNumber ==
    pc = "target" =>
        \A r \in Reordered(addr_str) :
            /\ ReorderedAddress[r].tokens = target_addr.tokens
            /\ ReorderedAddress[r].street_num = target_addr.street_num
                   => ReorderedAddress[r].street_name = target_addr.street_name

\* "MAIN ST 123" and "123 ST MAIN" both give street_name "MAIN"
C15_Witness ==
    /\ pc = "target"
    /\ addr_str = <<"M","A","I","N"," ","S","T"," ","1","2","3">>
    /\ <<"1","2","3"," ","S","T"," ","M","A","I","N">> \in Reordered(addr_str)
    /\ target_addr.street_name = <<"M","A","I","N">>
    /\ normalize_address(<<"1","2","3"," ","S","T"," ","M","A","I","N">>).street_name = <<"M","A","I","N">>
    /\ normalize_address(<<"1","2","3"," ","S","T"," ","M","A","I","N">>).tokens = target_addr.tokens

\* C16: select_top_two_groups_phones, and score_candidate inside it, return
\* a value for every non-empty batch and every target, the empty dicts
\* included: no exception propagates.
C16_NoException ==
    (pc = "selected" /\ candidates # <<>>) => ~IsRaised(phones)

\* the groups in the order select_top_two_groups_phones ranks them
Ranked == SortGroups(groups, target_name, <<>>)

\* the normalized numbers a group's members carry, in all_phones or phone
MemberPhones(group) ==
    LET Written(c) ==
            (IF "all_phones" \in c.keys THEN SeqToSet(c.all_phones) ELSE {})
            \cup (IF Truthy(GetPhone(c)) THEN {GetPhone(c)} ELSE {})
    IN  {normalize_phone(n) :
            n \in UNION {Written(group.members[i]) : i \in 1..Len(group.members)}}
        \ {None}

\* C17: the non-empty values among phone1..phone4 are pairwise distinct;
\* phone1/phone2 are numbers of members of the top-ranked group, phone3/phone4
\* numbers of members of the second-ranked group and never equal to phone1 or
\* phone2; phone2 is set only with phone1 and phone4 only with phone3.
C17_PhonesDistinctByGroup ==
    (Returned /\ candidates # <<>>) =>
        /\ \A i, j \in 1..4 :
              (i < j /\ phones[i] # <<>> /\ phones[j] # <<>>)
                  => phones[i] # phones[j]
        /\ \A k \in {1, 2} :
              phones[k] # <<>> => phones[k] \in MemberPhones(Ranked[1])
        /\ \A k \in {3, 4} :
              phones[k] # <<>> =>
                  /\ Len(Ranked) > 1
                  /\ phones[k] \in MemberPhones(Ranked[2])
                  /\ phones[k] \notin {phones[1], phones[2]}
        /\ phones[2] # <<>> => phones[1] # <<>>
        /\ phones[4] # <<>> => phones[3] # <<>>

\* the second group also carries phone1, written "305.555.1234": it is
\* skipped and the group's next number becomes phone3
C17_Witness ==
    /\ Returned
    /\ candidates = <<MariaOcean, SpencerJ>>
    /\ Len(Ranked) = 2
    /\ Ranked[1].members = <<MariaOcean>>
    /\ phones[1] = <<"(","3","0","5",")"," ","5","5","5","-","1","2","3","4">>
    /\ phones[1] \in MemberPhones(Ranked[2])
    /\ phones[3] = <<"(","7","8","6",")"," ","5","5","5","-","0","0","0","0">>

\* the normalized numbers _collect_group_phones reads from a group's members
ReadPhones(group) ==
    {normalize_phone(n) : n \in SeqToSet(GroupNumbers(group.members))} \ {None}

\* C18: only the two best-ranked groups are consulted: when the second
\* group has no number that is new, phone3 and phone4 stay empty whatever
\* the later groups hold, and when the top group has no valid number, phone1
\* and phone2 stay empty whatever the lower groups hold.
C18_NoThirdGroup ==
    (Returned /\ candidates # <<>>) =>
        /\ (Len(Ranked) < 2
            \/ ReadPhones(Ranked[2]) \subseteq {phones[1], phones[2]})
               => phones[3] = <<>> /\ phones[4] = <<>>
        /\ ReadPhones(Ranked[1]) = {} => phones[1] = <<>> /\ phones[2] = <<>>

\* the second group only repeats phone1/phone2, the third group holds a
\* valid unused number, and phone3 is empty
C18_Witness ==
    /\ Returned
    /\ Len(Ranked) = 3
    /\ phones[1] # <<>>
    /\ ReadPhones(Ranked[2]) # {}
    /\ ReadPhones(Ranked[2]) \subseteq {phones[1], phones[2]}
    /\ ReadPhones(Ranked[3]) \ {phones[1], phones[2]} # {}
    /\ phones[3] = <<>> /\ phones[4] = <<>>

\* the grouping loop has run to its end
Grouped == Returned /\ candidates # <<>>

\* C19: after the grouping loop the groups partition the batch by person
\* key, each group's members are the candidates of its key in input order,
\* and its best_score is the maximum score_candidate value over its members.
C19_GroupsPartition ==
    Grouped =>
        /\ \A i, j \in 1..Len(groups) : groups[i].key = groups[j].key => i = j
        /\ \A k \in 1..Len(candidates) :
              \E i \in 1..Len(groups) :
                  groups[i].key = _build_person_key(candidates[k])
        /\ \A i \in 1..Len(groups) :
              LET HasKey(c) == _build_person_key(c) = groups[i].key
                  MemberScore(k) ==
                      ScoreOf(target_name, target_addr, groups[i].members[k])
              IN  /\ groups[i].members = SelectSeq(candidates, HasKey)
                  /\ \A k \in 1..Len(groups[i].members) :
                        RLe(MemberScore(k), groups[i].best_score)
                  /\ \E k \in 1..Len(groups[i].members) :
                        MemberScore(k) = groups[i].best_score

\* two records of MARIA GARCIA around another person: one group holds both,
\* in input order, with the score of the later, better one
C19_Witness ==
    /\ Grouped
    /\ candidates = <<MariaElsewhere, SpencerJ, MariaOcean>>
    /\ Len(groups) = 2
    /\ groups[1].members = <<MariaElsewhere, MariaOcean>>
    /\ groups[2].members = <<SpencerJ>>
    /\ groups[1].best_score = ScoreOf(target_name, target_addr, MariaOcean)
    /\ RLt(ScoreOf(target_name, target_addr, MariaElsewhere),
           groups[1].best_score)

\* the rank the claim gives a group: best_score, plus MiddleBoost when a
\* member's name carries the target's single-letter middle initial
BoostedRank(group) ==
    LET target_middle ==
            IF "middle_initial" \in target_name.keys
            THEN target_name.middle_initial ELSE <<>>
        boosted ==
            /\ target_middle # <<>>
            /\ \E k \in 1..Len(group.members) :
                  NameInitial(GetName(group.members[k])) = target_middle
    IN  RAdd(group.best_score, RInt(IF boosted THEN MiddleBoost ELSE 0))

\* C20: the groups are ranked in descending order of best_score plus a
\* boost of 15 for the groups with a member whose name carries the target's
\* single-letter middle initial; the groups ranked are the groups stored,
\* best_score unchanged.
C20_RankByBoost ==
    Grouped =>
        /\ Len(Ranked) = Len(groups)
        /\ SeqToSet(Ranked) = SeqToSet(groups)
        /\ \A i \in 1..(Len(Ranked) - 1) :
              RLe(BoostedRank(Ranked[i + 1]), BoostedRank(Ranked[i]))

\* the token-recall term of calculate_address_similarity(a, b)
TokenRecall(a, b) ==
    IF a.tokens = {} THEN RInt(0)
    ELSE Rat(30 * Cardinality(a.tokens \cap b.tokens), Cardinality(a.tokens))

\* C21: calculate_address_similarity depends on the direction only through
\* its token-recall term: sim(A, B) - recall(A, B) = sim(B, A) - recall(B, A)
\* for the target address A and every address B of the candidate, that is,
\* sim(A, B) - sim(B, A) = 30 * |A.tokens \cap B.tokens| * (1/|A.tokens| - 1/|B.tokens|).
C21_AsymmetryIsRecall ==
    pc = "addr_scored" =>
        \A i \in 1..Len(CandidateAddresses(candidate)) :
            Truthy(CandidateAddresses(candidate)[i]) =>
                LET Balanced(a, b) ==
                        RAdd(calculate_address_similarity(a, b), TokenRecall(b, a))
                            = RAdd(calculate_address_similarity(b, a), TokenRecall(a, b))
                IN  Balanced(target_addr,
                             normalize_address(CandidateAddresses(candidate)[i]))

\* "123 MAIN ST" against "123 MAIN STREET APT 4": 135 one way, 130 the other
C21_Witness ==
    /\ pc = "addr_scored"
    /\ addr_str = <<"1","2","3"," ","M","A","I","N"," ","S","T">>
    /\ CandidateAddresses(candidate) = << <<"1","2","3"," ","M","A","I","N"," ","S","T","R","E","E","T"," ","A","P","T"," ","4">> >>
    /\ calculate_address_similarity(target_addr,
                                    normalize_address(<<"1","2","3"," ","M","A","I","N"," ","S","T","R","E","E","T"," ","A","P","T"," ","4">>))
           = RInt(135)
    /\ calculate_address_similarity(normalize_address(<<"1","2","3"," ","M","A","I","N"," ","S","T","R","E","E","T"," ","A","P","T"," ","4">>),
                                    target_addr)
           = RInt(130)
    /\ score = RInt(100)

\* the name with its one-character tokens taken out
WithoutInitials(s) ==
    IF ~Truthy(s) THEN <<>> ELSE JoinSp(LongTokens(Split(StrUpper(s))))

Named(c) ==
    LET HasName(norm) == norm.first # <<>> \/ norm.last # <<>>
    IN  HasName(NormalizedName(IF Truthy(GetName(c)) THEN GetName(c) ELSE <<>>))

\* the phone field as written, "" when it is absent, None or empty
RawPhone(c) == IF Truthy(GetPhone(c)) THEN GetPhone(c) ELSE <<>>

\* upper-cased "FIRST LAST", followed by the middle initial when one is detected
FirstLastKey(c) ==
    LET Text(norm) ==
            Strip(StrUpper(norm.first) \o <<" ">> \o StrUpper(norm.last))
            \o (IF norm.has_middle /\ Len(norm.middle_initial) = 1
                THEN <<" ">> \o norm.middle_initial ELSE <<>>)
    IN  Text(NormalizedName(IF Truthy(GetName(c)) THEN GetName(c) ELSE <<>>))

\* the index of the group the k-th candidate of the batch was put in
GroupIndex(k) ==
    CHOOSE i \in 1..Len(groups) :
        \E m \in 1..Len(groups[i].members) : groups[i].members[m] = candidates[k]

\* C23: a record's group key is the upper-cased "FIRST LAST" of its
\* normalized name whenever the name yields a first or last name, and its raw
\* phone string only when the name yields neither; two nameless records share
\* a group exactly when their raw phone strings are equal, and a named record
\* never shares a group with a nameless one.
C23_KeyFromNameElsePhone ==
    Grouped =>
        \A k \in 1..Len(candidates) :
            /\ Named(candidates[k]) =>
                  groups[GroupIndex(k)].key = FirstLastKey(candidates[k])
            /\ ~Named(candidates[k]) =>
                  groups[GroupIndex(k)].key = RawPhone(candidates[k])
            /\ \A j \in 1..Len(candidates) :
                  /\ (~Named(candidates[k]) /\ ~Named(candidates[j])) =>
                        (GroupIndex(k) = GroupIndex(j)
                            <=> RawPhone(candidates[k]) = RawPhone(candidates[j]))
                  /\ (Named(candidates[k]) /\ ~Named(candidates[j])) =>
                        GroupIndex(k) # GroupIndex(j)

\* two different nameless records with the phone "555-1234" share a group
\* and a blank-named record with another phone has its own
C23_Witness ==
    /\ Grouped
    /\ candidates = <<Nameless, BlankNamed, NamelessMiami>>
    /\ Len(groups) = 2
    /\ groups[1].key = <<"5","5","5","-","1","2","3","4">>
    /\ groups[1].members = <<Nameless, NamelessMiami>>
    /\ groups[2].key = <<"(","3","0","5",")"," ","5","5","5","-","1","2","3","4">>
    /\ groups[2].members = <<BlankNamed>>

\* C24 as claimed: the uncapped pairwise score of
\* calculate_address_similarity never exceeds 155.
C24_PairwiseAtMost155 ==
    pc = "addr_scored" =>
        LET Bounded(sims) == \A s \in sims : RLe(s, RInt(155))
        IN  Bounded(AddressSimilarities)

\* C24 amended: the uncapped pairwise score never exceeds 160, the sum of
\* the largest values of its terms, 50 + 30 + 30 + 25 + 25.
C24_PairwiseAtMost160 ==
    pc = "addr_scored" =>
        LET Bounded(sims) == \A s \in sims : RLe(s, RInt(50 + 30 + 30 + 25 + 25))
        IN  Bounded(AddressSimilarities)

\* an address compared with itself reaches 160
C24_Witness ==
    /\ pc = "addr_scored"
    /\ addr_str = <<"4","5","6"," ","O","C","E","A","N"," ","D","R"," ","M","I","A","M","I"," ","F","L">>
    /\ CandidateAddresses(candidate) = << <<"4","5","6"," ","O","C","E","A","N"," ","D","R"," ","M","I","A","M","I"," ","F","L">> >>
    /\ AddressSimilarities = {RInt(160)}
    /\ score = RInt(100)

\* the numbers of a record in the order they are read: all_phones, and the
\* phone field only when all_phones is missing or empty
OwnNumbers(c) ==
    IF "all_phones" \in c.keys /\ c.all_phones # <<>> THEN c.all_phones
    ELSE IF Truthy(GetPhone(c)) THEN <<GetPhone(c)>> ELSE <<>>

\* the first number of a group, members in input order and each member's
\* numbers in their order, that normalizes to a number outside taken; "" when
\* there is none
FirstNew(group, taken) ==
    LET At(p) == normalize_phone(OwnNumbers(group.members[p[1]])[p[2]])
        IsNew(p) == At(p) \notin taken \cup {None}
        Before(p, q) == p[1] < q[1] \/ (p[1] = q[1] /\ p[2] <= q[2])
        OfPositions(new) ==
            IF new = {} THEN <<>>
            ELSE At(CHOOSE p \in new : \A q \in new : Before(p, q))
    IN  OfPositions({p \in UNION {{<<m, n>> :
                                      n \in 1..Len(OwnNumbers(group.members[m]))} :
                                  m \in 1..Len(group.members)} : IsNew(p)})

\* C25: within a selected group the phones are taken in member input order
\* and, per member, in all_phones order (the phone field only when all_phones
\* is missing or empty), whatever the members' scores: each output is the
\* first number in that order that normalizes and was not taken before.
C25_PhonesInMemberOrder ==
    Grouped =>
        /\ phones[1] = FirstNew(Ranked[1], {})
        /\ phones[2] = FirstNew(Ranked[1], {phones[1]})
        /\ Len(Ranked) > 1 =>
              /\ phones[3] = FirstNew(Ranked[2], {phones[1], phones[2]})
              /\ phones[4] = FirstNew(Ranked[2], {phones[1], phones[2], phones[3]})

\* phone1 is the number of the earlier-listed record of the top group, not of
\* the batch's highest-scoring candidate
C25_Witness ==
    /\ Grouped
    /\ candidates = <<MariaElsewhere, MariaOcean>>
    /\ Len(groups) = 1
    /\ RLt(ScoreOf(target_name, target_addr, MariaElsewhere),
           ScoreOf(target_name, target_addr, MariaOcean))
    /\ phones[1] = <<"(","3","0","5",")"," ","5","5","5","-","5","6","7","8">>
    /\ phones[2] = <<"(","3","0","5",")"," ","5","5","5","-","1","2","3","4">>

\* the position in the batch of the first member of a group
FirstAppearance(group) ==
    CHOOSE k \in 1..Len(candidates) :
        /\ candidates[k] = group.members[1]
        /\ \A j \in 1..(k - 1) : candidates[j] # group.members[1]

\* C26: the groups are ranked by descending adjusted score, and two groups
\* of equal adjusted score are ranked in the order in which their first
\* members appear in the candidate list; this fixes the ranking, so the
\* result is determined by the ordered candidate list.
C26_TiesInInputOrder ==
    Grouped =>
        \A i, j \in 1..Len(Ranked) :
            i < j =>
                LET Ordered(high, low) ==
                        /\ RLe(low, high)
                        /\ low = high =>
                              FirstAppearance(Ranked[i]) < FirstAppearance(Ranked[j])
                IN  Ordered(sort_with_middle_priority(Ranked[i], target_name),
                            sort_with_middle_priority(Ranked[j], target_name))

\* two records that both score 0: the one listed first is ranked first, and
\* the other one's number is phone3
C26_Witness ==
    /\ Grouped
    /\ candidates = <<JohnNone, MariaNoPhone>>
    /\ Len(Ranked) = 2
    /\ Ranked[1].best_score = Ranked[2].best_score
    /\ Ranked[1].members = <<JohnNone>>
    /\ Ranked[2].members = <<MariaNoPhone>>
    /\ phones = << <<>>, <<>>, <<"(","7","8","6",")"," ","5","5","5","-","7","7","7","7">>, <<>> >>

\* the upper-cased tokens of a record's name
NameTokens(c) == IF Truthy(GetName(c)) THEN Split(StrUpper(GetName(c))) ELSE <<>>

\* the names of the two records are the same two multi-letter tokens in
\* opposite order
OppositeOrder(c, d) ==
    LET Opposite(s, t) ==
            /\ Len(s) = 2 /\ Len(t) = 2
            /\ Len(s[1]) > 1 /\ Len(s[2]) > 1
            /\ s[1] # s[2]
            /\ t = <<s[2], s[1]>>
    IN  Opposite(NameTokens(c), NameTokens(d))

\* C27: two records whose names are the same two multi-letter tokens in
\* opposite order receive different person keys, each name being read as
\* LAST FIRST, and are placed in different groups.
C27_TokenOrderMatters ==
    Grouped =>
        \A k, j \in 1..Len(candidates) :
            OppositeOrder(candidates[k], candidates[j]) =>
                /\ groups[GroupIndex(k)].key =
                       NameTokens(candidates[k])[2] \o <<" ">>
                           \o NameTokens(candidates[k])[1]
                /\ groups[GroupIndex(k)].key # groups[GroupIndex(j)].key
                /\ GroupIndex(k) # GroupIndex(j)

\* "MARIA GARCIA" and "GARCIA MARIA" in one batch form two groups
C27_Witness ==
    /\ Grouped
    /\ candidates = <<MariaOcean, GarciaMaria>>
    /\ OppositeOrder(MariaOcean, GarciaMaria)
    /\ Len(groups) = 2
    /\ groups[1].key = <<"G","A","R","C","I","A"," ","M","A","R","I","A">> /\ groups[1].members = <<MariaOcean>>
    /\ groups[2].key = <<"M","A","R","I","A"," ","G","A","R","C","I","A">> /\ groups[2].members = <<GarciaMaria>>

\* the target address is normalize_address of an empty or whitespace-only string
EmptyTargetAddress ==
    target_addr \in {normalize_address(<<>>), normalize_address(<<" ">>),
                     normalize_address(<<" "," "," ">>)}

LiveChildren == {w \in 1..Len(workers) : workers[w].child = "running"}

\* the commands started by run() whose worker has not finished
Unfinished == {w \in 1..Len(workers) : workers[w].pc # "done"}

\* C29: ProcessRunner runs at most one child process at a time: while a
\* started command has not exited, run() starts no second one; on_exit is
\* called once per started command and _proc is None once all have finished.
C29_OneChildAtATime ==
    pc = "gui" =>
        /\ Cardinality(LiveChildren) <= 1
        /\ Cardinality(Unfinished) <= 1
        /\ \A w \in 1..Len(workers) :
              workers[w].exits = (IF workers[w].pc = "done" THEN 1 ELSE 0)
        /\ Unfinished = {} => runner._proc = 0

(***************************************************************************)
(* C30: whenever validate_row_range accepts the range computed by         *)
(* calculate_row_range, 0 <= start_idx < end_idx <= total_rows, and the    *)
(* rows read by process_file all exist (no IndexError).                    *)
(***************************************************************************)
C30_AcceptedRangeInFile ==
    /\ pc \in {"accepted", "processed", "IndexError"} =>
          /\ 0 <= row_range[1]
          /\ row_range[1] < row_range[2]
          /\ row_range[2] <= args.total_rows
    /\ pc # "IndexError"

====
